---- MODULE Spec2Model ----
(***************************************************************************)
(* Kairo canvas state engine: boxes on an integer grid, connections between *)
(* boxes, the push-propagation resolver that moves a dragged box and every  *)
(* box it transitively collides with, and the two-stack command history.    *)
(***************************************************************************)
EXTENDS Integers, Sequences, FiniteSets, TLC

VARIABLES boxes, connections, undoStack, redoStack, last

vars == <<boxes, connections, undoStack, redoStack, last>>

(***************************************************************************)
(* Bounds of the model.                                                     *)
(***************************************************************************)
ArenaW == 5
MaxRow == 3
GridW == 3
MaxBoxes == 2
MaxHistory == 2

(***************************************************************************)
(* Data model (types/index.ts).                                             *)
(***************************************************************************)
Box(id, x, y, width, height, text, selected) ==
    [id |-> id, x |-> x, y |-> y, width |-> width, height |-> height,
     text |-> text, selected |-> selected]

CanvasState(bs, cs) == [boxes |-> bs, connections |-> cs]

Max(a, b) == IF a >= b THEN a ELSE b

(***************************************************************************)
(* utils/collision: AABB test, evaluated as the code evaluates it.          *)
(***************************************************************************)
\* Variants of the test with a slip in it: an off-by-one on the horizontal
\* axis, and a test that forgets the horizontal axis.
doBoxesIntersectOffByOne(boxA, boxB) ==
    IF boxA.x + boxA.width <= boxB.x + 1 \/ boxB.x + boxB.width <= boxA.x + 1
    THEN FALSE
    ELSE IF boxA.y + boxA.height <= boxB.y \/ boxB.y + boxB.height <= boxA.y
         THEN FALSE
         ELSE TRUE

doBoxesIntersectNoX(boxA, boxB) ==
    IF boxA.y + boxA.height <= boxB.y \/ boxB.y + boxB.height <= boxA.y
    THEN FALSE
    ELSE TRUE

\* Variant: the closed test, in which rectangles that share an edge or a
\* corner intersect.
doBoxesIntersectClosed(boxA, boxB) ==
    IF boxA.x + boxA.width < boxB.x \/ boxB.x + boxB.width < boxA.x
    THEN FALSE
    ELSE IF boxA.y + boxA.height < boxB.y \/ boxB.y + boxB.height < boxA.y
         THEN FALSE
         ELSE TRUE

doBoxesIntersect(boxA, boxB) ==
    IF boxA.x + boxA.width <= boxB.x \/ boxB.x + boxB.width <= boxA.x
    THEN FALSE
    ELSE IF boxA.y + boxA.height <= boxB.y \/ boxB.y + boxB.height <= boxA.y
         THEN FALSE
         ELSE TRUE

\* Array.prototype.find on the box array: index of the first box with the id,
\* 0 when there is none.
FindIndex(bs, id) ==
    IF \E i \in 1..Len(bs) : bs[i].id = id
    THEN CHOOSE i \in 1..Len(bs) :
            /\ bs[i].id = id
            /\ \A j \in 1..(i - 1) : bs[j].id # id
    ELSE 0

\* toUpdate is the code's Map<string, Box>; it is kept as the sequence of its
\* values in insertion order, which is also the order of the BFS queue.
MapHas(toUpdate, id) == \E i \in 1..Len(toUpdate) : toUpdate[i].id = id

MapGet(toUpdate, id) == toUpdate[FindIndex(toUpdate, id)]

(***************************************************************************)
(* hooks/useInteraction handleMouseMove: the setBoxes updater.              *)
(***************************************************************************)
\* Variant: a pushed box that would leave the canvas is clamped to the origin
\* instead of rejecting the move.
RECURSIVE ScanOthersClamp(_, _, _, _, _, _)
ScanOthersClamp(prevBoxes, i, movingBox, toUpdate, deltaX, deltaY) ==
    IF i > Len(prevBoxes)
    THEN [rejected |-> FALSE, toUpdate |-> toUpdate]
    ELSE LET other == prevBoxes[i] IN
         IF MapHas(toUpdate, other.id)
         THEN ScanOthersClamp(prevBoxes, i + 1, movingBox, toUpdate, deltaX, deltaY)
         ELSE IF doBoxesIntersect(movingBox, other)
              THEN ScanOthersClamp(prevBoxes, i + 1, movingBox,
                                   Append(toUpdate,
                                          [other EXCEPT !.x = Max(0, other.x + deltaX),
                                                        !.y = Max(0, other.y + deltaY)]),
                                   deltaX, deltaY)
              ELSE ScanOthersClamp(prevBoxes, i + 1, movingBox, toUpdate, deltaX, deltaY)

\* Variant: a pushed box is nudged by one cell in the direction of the drag
\* instead of receiving the whole displacement.
Sign(v) == IF v > 0 THEN 1 ELSE IF v < 0 THEN -1 ELSE 0

RECURSIVE ScanOthersNudge(_, _, _, _, _, _)
ScanOthersNudge(prevBoxes, i, movingBox, toUpdate, deltaX, deltaY) ==
    IF i > Len(prevBoxes)
    THEN [rejected |-> FALSE, toUpdate |-> toUpdate]
    ELSE LET other == prevBoxes[i] IN
         IF MapHas(toUpdate, other.id)
         THEN ScanOthersNudge(prevBoxes, i + 1, movingBox, toUpdate, deltaX, deltaY)
         ELSE IF doBoxesIntersect(movingBox, other)
              THEN LET newOtherX == other.x + Sign(deltaX)
                       newOtherY == other.y + Sign(deltaY)
                   IN IF newOtherX < 0 \/ newOtherY < 0
                      THEN [rejected |-> TRUE, toUpdate |-> toUpdate]
                      ELSE ScanOthersNudge(prevBoxes, i + 1, movingBox,
                                           Append(toUpdate,
                                                  [other EXCEPT !.x = newOtherX,
                                                                !.y = newOtherY]),
                                           deltaX, deltaY)
              ELSE ScanOthersNudge(prevBoxes, i + 1, movingBox, toUpdate, deltaX, deltaY)

\* Variant: the scan does not skip the boxes that are planned already.
RECURSIVE ScanOthersAgain(_, _, _, _, _, _)
ScanOthersAgain(prevBoxes, i, movingBox, toUpdate, deltaX, deltaY) ==
    IF i > Len(prevBoxes)
    THEN [rejected |-> FALSE, toUpdate |-> toUpdate]
    ELSE LET other == prevBoxes[i] IN
         IF doBoxesIntersect(movingBox, other)
         THEN LET newOtherX == other.x + deltaX
                  newOtherY == other.y + deltaY
              IN IF newOtherX < 0 \/ newOtherY < 0
                 THEN [rejected |-> TRUE, toUpdate |-> toUpdate]
                 ELSE ScanOthersAgain(prevBoxes, i + 1, movingBox,
                                      Append(toUpdate,
                                             [other EXCEPT !.x = newOtherX,
                                                           !.y = newOtherY]),
                                      deltaX, deltaY)
         ELSE ScanOthersAgain(prevBoxes, i + 1, movingBox, toUpdate, deltaX, deltaY)

\* Variant: the scan for one dequeued box stops at the first box it pushes.
RECURSIVE ScanOthersFirstHit(_, _, _, _, _, _)
ScanOthersFirstHit(prevBoxes, i, movingBox, toUpdate, deltaX, deltaY) ==
    IF i > Len(prevBoxes)
    THEN [rejected |-> FALSE, toUpdate |-> toUpdate]
    ELSE LET other == prevBoxes[i] IN
         IF MapHas(toUpdate, other.id)
         THEN ScanOthersFirstHit(prevBoxes, i + 1, movingBox, toUpdate, deltaX, deltaY)
         ELSE IF doBoxesIntersect(movingBox, other)
              THEN LET newOtherX == other.x + deltaX
                       newOtherY == other.y + deltaY
                   IN IF newOtherX < 0 \/ newOtherY < 0
                      THEN [rejected |-> TRUE, toUpdate |-> toUpdate]
                      ELSE [rejected |-> FALSE,
                            toUpdate |-> Append(toUpdate,
                                                [other EXCEPT !.x = newOtherX,
                                                              !.y = newOtherY])]
              ELSE ScanOthersFirstHit(prevBoxes, i + 1, movingBox, toUpdate, deltaX, deltaY)

\* for (const other of prevBoxes) { ... } for one dequeued box.
RECURSIVE ScanOthers(_, _, _, _, _, _)
ScanOthers(prevBoxes, i, movingBox, toUpdate, deltaX, deltaY) ==
    IF i > Len(prevBoxes)
    THEN [rejected |-> FALSE, toUpdate |-> toUpdate]
    ELSE LET other == prevBoxes[i] IN
         IF MapHas(toUpdate, other.id)
         THEN ScanOthers(prevBoxes, i + 1, movingBox, toUpdate, deltaX, deltaY)
         ELSE IF doBoxesIntersect(movingBox, other)
              THEN LET newOtherX == other.x + deltaX
                       newOtherY == other.y + deltaY
                   IN IF newOtherX < 0 \/ newOtherY < 0
                      THEN [rejected |-> TRUE, toUpdate |-> toUpdate]
                      ELSE ScanOthers(prevBoxes, i + 1, movingBox,
                                      Append(toUpdate,
                                             [other EXCEPT !.x = newOtherX,
                                                           !.y = newOtherY]),
                                      deltaX, deltaY)
              ELSE ScanOthers(prevBoxes, i + 1, movingBox, toUpdate, deltaX, deltaY)

\* Variant: only the dragged box is dequeued, so a pushed box pushes nothing.
PropagateOneHop(prevBoxes, head, toUpdate, deltaX, deltaY) ==
    ScanOthers(prevBoxes, 1, toUpdate[head], toUpdate, deltaX, deltaY)

\* Variant: a dequeued box is tested only against the boxes that come after
\* it in the array.
RECURSIVE PropagateForward(_, _, _, _, _)
PropagateForward(prevBoxes, head, toUpdate, deltaX, deltaY) ==
    IF head > Len(toUpdate)
    THEN [rejected |-> FALSE, toUpdate |-> toUpdate]
    ELSE LET r == ScanOthers(prevBoxes, FindIndex(prevBoxes, toUpdate[head].id) + 1,
                             toUpdate[head], toUpdate, deltaX, deltaY)
         IN IF r.rejected
            THEN r
            ELSE PropagateForward(prevBoxes, head + 1, r.toUpdate, deltaX, deltaY)

\* while (head < queue.length) { ... }
RECURSIVE Propagate(_, _, _, _, _)
Propagate(prevBoxes, head, toUpdate, deltaX, deltaY) ==
    IF head > Len(toUpdate)
    THEN [rejected |-> FALSE, toUpdate |-> toUpdate]
    ELSE LET r == ScanOthers(prevBoxes, 1, toUpdate[head], toUpdate, deltaX, deltaY)
         IN IF r.rejected
            THEN r
            ELSE Propagate(prevBoxes, head + 1, r.toUpdate, deltaX, deltaY)

\* The final consistency check over finalBoxes.
HasResidualCollision(toUpdate, finalBoxes) ==
    \E u \in 1..Len(toUpdate) :
        \E o \in 1..Len(finalBoxes) :
            /\ ~(toUpdate[u].id = finalBoxes[o].id \/ MapHas(toUpdate, finalBoxes[o].id))
            /\ doBoxesIntersect(toUpdate[u], finalBoxes[o])

\* Variant: the requested target is taken as it is, without Math.max(0, ...).
MoveBoxUpdaterNoClamp(prevBoxes, boxId, newGridX, newGridY) ==
    LET c == FindIndex(prevBoxes, boxId) IN
    IF c = 0 THEN prevBoxes
    ELSE
    LET currentBox == prevBoxes[c]
        proposedX == newGridX
        proposedY == newGridY
        deltaX == proposedX - currentBox.x
        deltaY == proposedY - currentBox.y
    IN
    IF deltaX = 0 /\ deltaY = 0 THEN prevBoxes
    ELSE
    LET r == Propagate(prevBoxes, 1,
                       <<[currentBox EXCEPT !.x = proposedX, !.y = proposedY]>>,
                       deltaX, deltaY)
    IN
    IF r.rejected THEN prevBoxes
    ELSE
    LET finalBoxes == [i \in 1..Len(prevBoxes) |->
                          IF MapHas(r.toUpdate, prevBoxes[i].id)
                          THEN MapGet(r.toUpdate, prevBoxes[i].id)
                          ELSE prevBoxes[i]]
    IN IF HasResidualCollision(r.toUpdate, finalBoxes) THEN prevBoxes ELSE finalBoxes

MoveBoxUpdater(prevBoxes, boxId, newGridX, newGridY) ==
    LET c == FindIndex(prevBoxes, boxId) IN
    IF c = 0 THEN prevBoxes
    ELSE
    LET currentBox == prevBoxes[c]
        proposedX == Max(0, newGridX)
        proposedY == Max(0, newGridY)
        deltaX == proposedX - currentBox.x
        deltaY == proposedY - currentBox.y
    IN
    IF deltaX = 0 /\ deltaY = 0 THEN prevBoxes
    ELSE
    LET r == Propagate(prevBoxes, 1,
                       <<[currentBox EXCEPT !.x = proposedX, !.y = proposedY]>>,
                       deltaX, deltaY)
    IN
    IF r.rejected THEN prevBoxes
    ELSE
    LET finalBoxes == [i \in 1..Len(prevBoxes) |->
                          IF MapHas(r.toUpdate, prevBoxes[i].id)
                          THEN MapGet(r.toUpdate, prevBoxes[i].id)
                          ELSE prevBoxes[i]]
    IN IF HasResidualCollision(r.toUpdate, finalBoxes) THEN prevBoxes ELSE finalBoxes

(***************************************************************************)
(* Reference geometry used by the properties (spec section 4.1), stated     *)
(* independently of the code's test.                                        *)
(***************************************************************************)
Intersects(a, b) ==
    /\ a.x < b.x + b.width
    /\ b.x < a.x + a.width
    /\ a.y < b.y + b.height
    /\ b.y < a.y + a.height

NoOverlap(bs) ==
    \A i, j \in 1..Len(bs) : i # j => ~Intersects(bs[i], bs[j])

UniqueIds(bs) ==
    \A i, j \in 1..Len(bs) : i # j => bs[i].id # bs[j].id

(***************************************************************************)
(* Drag specification: a canvas that holds a non-overlapping layout and on  *)
(* which boxes are dragged one at a time (useInteraction handleMouseMove).  *)
(* The canvas is observed inside an arena of ArenaW x ArenaH cells.         *)
(***************************************************************************)
NoOp == [op |-> "init", id |-> 0, newX |-> 0, newY |-> 0, pre |-> <<>>]

\* Box sizes (width, height) met in the layouts; box i of layout variant r
\* takes the sizes in turn.
SizeCycle == <<<<1, 1>>, <<2, 1>>, <<1, 2>>>>

\* The arena is as tall as the tallest box.
ArenaH ==
    CHOOSE h \in {SizeCycle[i][2] : i \in 1..Len(SizeCycle)} :
        \A i \in 1..Len(SizeCycle) : SizeCycle[i][2] <= h

BoxSize(i, r) == SizeCycle[((i + r) % Len(SizeCycle)) + 1]

TextOf(i) == IF i % 2 = 1 THEN <<<<97>>>> ELSE <<<<98>>>>

InArena(bs) ==
    \A i \in 1..Len(bs) :
        /\ bs[i].x >= 0 /\ bs[i].x + bs[i].width <= ArenaW
        /\ bs[i].y >= 0 /\ bs[i].y + bs[i].height <= ArenaH

\* The cap on where a drag may leave the boxes (the canvas has no upper bound).
WithinArena(bs) ==
    \A i \in 1..Len(bs) :
        /\ bs[i].x + bs[i].width <= ArenaW
        /\ bs[i].y + bs[i].height <= ArenaH

Placements(i, r) ==
    {Box(i, x, y, BoxSize(i, r)[1], BoxSize(i, r)[2], TextOf(i), FALSE) :
        x \in 0..(ArenaW - 1), y \in 0..(ArenaH - 1)}

Layouts ==
    UNION {{s \in [1..n -> UNION {Placements(i, r) : i \in 1..n}] :
                /\ \A i \in 1..n : s[i].id = i
                /\ InArena(s)
                /\ NoOverlap(s)} : n \in 1..Len(SizeCycle), r \in 0..(Len(SizeCycle) - 1)}

\* Requested drag targets: every cell of the arena and one cell outside it on
\* every side, negative cells included.
MoveXs == -1..(ArenaW - 1)
MoveYs == -1..(ArenaH - 1)

InitMove ==
    /\ boxes \in Layouts
    /\ connections = <<>>
    /\ undoStack = <<>>
    /\ redoStack = <<>>
    /\ last = NoOp

DragBox ==
    \E id \in 1..Len(SizeCycle), newX \in MoveXs, newY \in MoveYs :
        LET result == MoveBoxUpdater(boxes, id, newX, newY) IN
        /\ WithinArena(result)
        /\ boxes' = result
        /\ last' = [op |-> "move", id |-> id, newX |-> newX, newY |-> newY,
                    pre |-> boxes]
        /\ UNCHANGED <<connections, undoStack, redoStack>>

NextMove == DragBox

SpecMove == InitMove /\ [][NextMove]_vars

(***************************************************************************)
(* Row specification: k boxes of size 2x1 placed edge to edge from the      *)
(* origin, dragged along the row (near targets and one far away column).    *)
(***************************************************************************)
Row(k) == [i \in 1..k |-> Box(i, 2 * (i - 1), 0, 2, 1, TextOf(i), FALSE)]

RowXs == {-1, 0, 1, 100}
RowYs == {0, 1}

InitRow ==
    /\ boxes \in {Row(k) : k \in 1..MaxRow}
    /\ connections = <<>>
    /\ undoStack = <<>>
    /\ redoStack = <<>>
    /\ last = NoOp

Within(bs) == \A i \in 1..Len(bs) : bs[i].x <= 102 /\ bs[i].y <= 1

DragInRow ==
    \E id \in 1..MaxRow, newX \in RowXs, newY \in RowYs :
        LET result == MoveBoxUpdater(boxes, id, newX, newY) IN
        /\ Within(result)
        /\ boxes' = result
        /\ last' = [op |-> "move", id |-> id, newX |-> newX, newY |-> newY,
                    pre |-> boxes]
        /\ UNCHANGED <<connections, undoStack, redoStack>>

NextRow == DragInRow

SpecRow == InitRow /\ [][NextRow]_vars

(***************************************************************************)
(* Properties of a single-box move, read off the last drag: last.pre is the *)
(* box array before it, boxes the array after it.                           *)
(***************************************************************************)
Moved == last.op = "move"

Clamp0(v) == IF v < 0 THEN 0 ELSE v

\* Position of the dragged box in the array before the move (0: no such box).
DraggedIdx ==
    IF \E i \in 1..Len(last.pre) : last.pre[i].id = last.id
    THEN CHOOSE i \in 1..Len(last.pre) : last.pre[i].id = last.id
    ELSE 0

\* The displacement the move asks for, after the target is clamped.
AskedDX == Clamp0(last.newX) - last.pre[DraggedIdx].x
AskedDY == Clamp0(last.newY) - last.pre[DraggedIdx].y

Translate(b, dx, dy) == [b EXCEPT !.x = @ + dx, !.y = @ + dy]

\* The boxes a displacement (dx, dy) of the boxes P reaches transitively: a box
\* joins when its rectangle meets the translated rectangle of a member.
RECURSIVE PushClosure(_, _, _, _)
PushClosure(pre, P, dx, dy) ==
    LET hit == {j \in (1..Len(pre)) \ P :
                   \E i \in P : Intersects(Translate(pre[i], dx, dy), pre[j])}
    IN IF hit = {} THEN P ELSE PushClosure(pre, P \cup hit, dx, dy)

Reached == PushClosure(last.pre, {DraggedIdx}, AskedDX, AskedDY)

LeavesCanvas(j) ==
    last.pre[j].x + AskedDX < 0 \/ last.pre[j].y + AskedDY < 0

RealMove == Moved /\ DraggedIdx # 0 /\ (AskedDX # 0 \/ AskedDY # 0)

MovedSet == {i \in 1..Len(boxes) : boxes[i].x # last.pre[i].x \/ boxes[i].y # last.pre[i].y}

\* C2: a single-box move of a layout without overlap returns a layout without
\* overlap, whether it changed the layout or not.
MovePreservesNoOverlap ==
    (Moved /\ NoOverlap(last.pre)) => NoOverlap(boxes)

\* C2 witness: a move that pushed a box and left another box where it was.
MovePushedAndSpared ==
    /\ RealMove /\ NoOverlap(last.pre)
    /\ Cardinality(MovedSet) >= 2
    /\ Cardinality(MovedSet) < Len(boxes)

\* C3: when some transitively pushed box would get x < 0 or y < 0, every box
\* keeps exactly its position from before the move.
BoundaryRejectionAtomic ==
    (RealMove /\ \E j \in Reached \ {DraggedIdx} : LeavesCanvas(j))
        => boxes = last.pre

\* C3 witness: the rejected move had already reached a box that could move
\* when it met the box that would leave the canvas.
BoundaryRejectedAfterPlanning ==
    /\ RealMove
    /\ \E j \in Reached \ {DraggedIdx} : LeavesCanvas(j)
    /\ \E j \in Reached \ {DraggedIdx} : ~LeavesCanvas(j)
    /\ boxes = last.pre

\* C4: after a move every box is at its old position or at its old position
\* plus the displacement of the dragged box, and keeps its id, size, text and
\* selection flag.
RigidTranslation ==
    Moved =>
        /\ Len(boxes) = Len(last.pre)
        /\ \A i \in 1..Len(boxes) :
              /\ boxes[i].id = last.pre[i].id
              /\ boxes[i].width = last.pre[i].width
              /\ boxes[i].height = last.pre[i].height
              /\ boxes[i].text = last.pre[i].text
              /\ boxes[i].selected = last.pre[i].selected
              /\ \/ boxes[i].x = last.pre[i].x /\ boxes[i].y = last.pre[i].y
                 \/ /\ DraggedIdx # 0
                    /\ boxes[i].x - last.pre[i].x
                          = boxes[DraggedIdx].x - last.pre[DraggedIdx].x
                    /\ boxes[i].y - last.pre[i].y
                          = boxes[DraggedIdx].y - last.pre[DraggedIdx].y

\* C4 witness: a move by more than one cell that pushed a box.
RigidPushByTwo ==
    /\ RealMove
    /\ boxes # last.pre
    /\ Cardinality(MovedSet) >= 2
    /\ (AskedDX > 1 \/ AskedDX < -1 \/ AskedDY > 1 \/ AskedDY < -1)

DraggedFirstOfRow(k, newX) ==
    /\ Moved /\ last.pre = Row(k)
    /\ last.id = 1 /\ last.newX = newX /\ last.newY = 0

\* C5 as stated: with A{0,0,2,1} and B{2,0,2,1}, move_box(A, 100, 0) leaves B
\* at {102,0,2,1}.
FarMovePushesNeighbour ==
    DraggedFirstOfRow(2, 100) =>
        /\ boxes[2].x = 102 /\ boxes[2].y = 0
        /\ boxes[2].width = 2 /\ boxes[2].height = 1

\* C5 amended: the move succeeds, A ends at {100,0,2,1} and B stays at
\* {2,0,2,1}, since A's destination rectangle does not meet B's rectangle.
FarMoveLeavesNeighbour ==
    DraggedFirstOfRow(2, 100) =>
        boxes = <<Translate(Row(2)[1], 100, 0), Row(2)[2]>>

\* C5 witness: the far move of A was made.
FarMoveMade ==
    DraggedFirstOfRow(2, 100) /\ boxes[1].x = 100

\* C6: in a row of k >= 2 edge-to-edge 2x1 boxes, moving the first box by
\* (1,0) moves all k boxes by exactly (1,0).
RowMovesTogether ==
    \A k \in 2..MaxRow :
        DraggedFirstOfRow(k, 1) =>
            boxes = [i \in 1..k |-> Translate(Row(k)[i], 1, 0)]

\* C6 witness: the three-box row A, B, C was pushed to {1,0}, {3,0}, {5,0}.
RowOfThreePushed ==
    /\ DraggedFirstOfRow(3, 1)
    /\ boxes[1].x = 1 /\ boxes[2].x = 3 /\ boxes[3].x = 5

(***************************************************************************)
(* Text and its size on the grid (calculateSizeForTextWithMonoFont).  A     *)
(* text is the sequence of its lines (text.split('\n')), a line the         *)
(* sequence of its character codes; the empty string is one empty line.     *)
(***************************************************************************)
EmptyText == << <<>> >>

RECURSIVE CharCount(_)
\* Width of a line in half cells: 0.5 for an ASCII character, 1 for others.
CharCount(line) ==
    IF line = <<>> THEN 0
    ELSE (IF Head(line) >= 0 /\ Head(line) <= 127 THEN 1 ELSE 2) + CharCount(Tail(line))

RECURSIVE MaxChars(_)
MaxChars(lines) ==
    IF lines = <<>> THEN 0 ELSE Max(CharCount(Head(lines)), MaxChars(Tail(lines)))

calculateSizeForTextWithMonoFont(text) ==
    IF text = EmptyText
    THEN [width |-> 2, height |-> 1]
    ELSE [width  |-> Max(2, (MaxChars(text) + 1) \div 2),  \* Math.ceil of halves
          height |-> Max(1, Len(text))]

\* "", two full-width characters and an ASCII one (2.5 cells), "a\nb".
Texts == {EmptyText, << <<20013, 25991, 97>> >>, << <<97>>, <<98>> >>}

(***************************************************************************)
(* Connections.                                                             *)
(***************************************************************************)
Connection(from, to, type) == [from |-> from, to |-> to, type |-> type]

NoConnection == Connection(0, 0, "null")

BoxIdsOf(bs) == {bs[i].id : i \in 1..Len(bs)}

\* First box that contains the grid cell, 0 if the cell is empty.
findBoxAt(bs, gridX, gridY) ==
    IF \E i \in 1..Len(bs) :
          /\ gridX >= bs[i].x /\ gridX < bs[i].x + bs[i].width
          /\ gridY >= bs[i].y /\ gridY < bs[i].y + bs[i].height
    THEN CHOOSE i \in 1..Len(bs) :
          /\ gridX >= bs[i].x /\ gridX < bs[i].x + bs[i].width
          /\ gridY >= bs[i].y /\ gridY < bs[i].y + bs[i].height
          /\ \A j \in 1..(i - 1) :
                ~(/\ gridX >= bs[j].x /\ gridX < bs[j].x + bs[j].width
                  /\ gridY >= bs[j].y /\ gridY < bs[j].y + bs[j].height)
    ELSE 0

\* A test that sees only the orientation asked for.
connectionExistsOneWay(cs, from, to) ==
    \E i \in 1..Len(cs) : cs[i].from = from /\ cs[i].to = to

connectionExists(cs, from, to) ==
    \E i \in 1..Len(cs) :
        \/ cs[i].from = from /\ cs[i].to = to
        \/ cs[i].from = to /\ cs[i].to = from

(***************************************************************************)
(* Commands (useCanvas.ts): what each command captures when it is created.  *)
(***************************************************************************)
AddBoxCommand(box) == [type |-> "addBox", box |-> box]

DeleteBoxCommand(boxId, deletedBox, deletedConnections) ==
    [type |-> "deleteBox", boxId |-> boxId, deletedBox |-> deletedBox,
     deletedConnections |-> deletedConnections]

UpdateBoxCommand(boxId, oldText, newText, oldWidth, newWidth, oldHeight, newHeight) ==
    [type |-> "updateBox", boxId |-> boxId, oldText |-> oldText, newText |-> newText,
     oldWidth |-> oldWidth, newWidth |-> newWidth,
     oldHeight |-> oldHeight, newHeight |-> newHeight]

AddConnectionCommand(connection) == [type |-> "addConnection", connection |-> connection]

MoveCommand(oldState, newState) ==
    [type |-> "move", oldState |-> oldState, newState |-> newState]

\* A deleteBox that removes only the connections that start at the box.
CmdExecuteDeleteBySource(command, state) ==
    CASE command.type = "addBox" ->
            [state EXCEPT !.boxes = Append(@, command.box)]
      [] command.type = "deleteBox" ->
            [boxes |-> SelectSeq(state.boxes, LAMBDA b : b.id # command.boxId),
             connections |-> SelectSeq(state.connections,
                 LAMBDA c : c.from # command.boxId)]
      [] command.type = "updateBox" ->
            [state EXCEPT !.boxes =
                [i \in 1..Len(@) |->
                    IF @[i].id = command.boxId
                    THEN [@[i] EXCEPT !.text = command.newText,
                                      !.width = command.newWidth,
                                      !.height = command.newHeight]
                    ELSE @[i]]]
      [] command.type = "addConnection" ->
            [state EXCEPT !.connections = Append(@, command.connection)]
      [] command.type = "move" -> command.newState

\* A deleteBox that leaves the connections alone.
CmdExecuteDeleteKeepsConnections(command, state) ==
    CASE command.type = "addBox" ->
            [state EXCEPT !.boxes = Append(@, command.box)]
      [] command.type = "deleteBox" ->
            [boxes |-> SelectSeq(state.boxes, LAMBDA b : b.id # command.boxId),
             connections |-> state.connections]
      [] command.type = "updateBox" ->
            [state EXCEPT !.boxes =
                [i \in 1..Len(@) |->
                    IF @[i].id = command.boxId
                    THEN [@[i] EXCEPT !.text = command.newText,
                                      !.width = command.newWidth,
                                      !.height = command.newHeight]
                    ELSE @[i]]]
      [] command.type = "addConnection" ->
            [state EXCEPT !.connections = Append(@, command.connection)]
      [] command.type = "move" -> command.newState

\* command.execute(state)
CmdExecute(command, state) ==
    CASE command.type = "addBox" ->
            [state EXCEPT !.boxes = Append(@, command.box)]
      [] command.type = "deleteBox" ->
            [boxes |-> SelectSeq(state.boxes, LAMBDA b : b.id # command.boxId),
             connections |-> SelectSeq(state.connections,
                 LAMBDA c : c.from # command.boxId /\ c.to # command.boxId)]
      [] command.type = "updateBox" ->
            [state EXCEPT !.boxes =
                [i \in 1..Len(@) |->
                    IF @[i].id = command.boxId
                    THEN [@[i] EXCEPT !.text = command.newText,
                                      !.width = command.newWidth,
                                      !.height = command.newHeight]
                    ELSE @[i]]]
      [] command.type = "addConnection" ->
            [state EXCEPT !.connections = Append(@, command.connection)]
      [] command.type = "move" -> command.newState

\* A deleteBox whose undo brings back the box but not its connections.
CmdUndoWithoutConnections(command, state) ==
    CASE command.type = "addBox" ->
            [state EXCEPT !.boxes = SelectSeq(@, LAMBDA b : b.id # command.box.id)]
      [] command.type = "deleteBox" ->
            [state EXCEPT !.boxes = Append(@, command.deletedBox)]
      [] command.type = "updateBox" ->
            [state EXCEPT !.boxes =
                [i \in 1..Len(@) |->
                    IF @[i].id = command.boxId
                    THEN [@[i] EXCEPT !.text = command.oldText,
                                      !.width = command.oldWidth,
                                      !.height = command.oldHeight]
                    ELSE @[i]]]
      [] command.type = "addConnection" ->
            [state EXCEPT !.connections = SelectSeq(@,
                LAMBDA c : ~(c.from = command.connection.from
                             /\ c.to = command.connection.to))]
      [] command.type = "move" -> command.oldState

\* command.undo(state)
CmdUndo(command, state) ==
    CASE command.type = "addBox" ->
            [state EXCEPT !.boxes = SelectSeq(@, LAMBDA b : b.id # command.box.id)]
      [] command.type = "deleteBox" ->
            [boxes |-> Append(state.boxes, command.deletedBox),
             connections |-> state.connections \o command.deletedConnections]
      [] command.type = "updateBox" ->
            [state EXCEPT !.boxes =
                [i \in 1..Len(@) |->
                    IF @[i].id = command.boxId
                    THEN [@[i] EXCEPT !.text = command.oldText,
                                      !.width = command.oldWidth,
                                      !.height = command.oldHeight]
                    ELSE @[i]]]
      [] command.type = "addConnection" ->
            [state EXCEPT !.connections = SelectSeq(@,
                LAMBDA c : ~(c.from = command.connection.from
                             /\ c.to = command.connection.to))]
      [] command.type = "move" -> command.oldState

(***************************************************************************)
(* Backend commands whose result the front end wraps in a snapshot command. *)
(***************************************************************************)
RECURSIVE add_many(_, _, _)
\* add(from, to_id) for each id of from_ids in turn, skipping to_id itself
\* and every pair that is already connected.
add_many(cs, from_ids, to_id) ==
    IF from_ids = <<>> THEN cs
    ELSE LET from == Head(from_ids) IN
         IF from = to_id \/ connectionExists(cs, from, to_id)
         THEN add_many(cs, Tail(from_ids), to_id)
         ELSE add_many(Append(cs, Connection(from, to_id, "Forward")), Tail(from_ids), to_id)

\* The connection of the pair with its type advanced, NoConnection if the
\* pair is not connected.
cycle_type(cs, from, to) ==
    IF connectionExists(cs, from, to)
    THEN LET i == CHOOSE k \in 1..Len(cs) :
                     /\ \/ cs[k].from = from /\ cs[k].to = to
                        \/ cs[k].from = to /\ cs[k].to = from
                     /\ \A j \in 1..(k - 1) :
                           ~(\/ cs[j].from = from /\ cs[j].to = to
                             \/ cs[j].from = to /\ cs[j].to = from)
         IN [cs[i] EXCEPT !.type = IF @ = "Forward" THEN "Bidirectional" ELSE "Forward"]
    ELSE NoConnection

(***************************************************************************)
(* The command history (useHistory) over the canvas state.                  *)
(***************************************************************************)
Current == CanvasState(boxes, connections)

\* An execute that keeps the redo stack.
ExecuteKeepsRedo(command) ==
    LET newState == CmdExecute(command, Current) IN
    /\ boxes' = newState.boxes
    /\ connections' = newState.connections
    /\ undoStack' = Append(undoStack, command)
    /\ redoStack' = redoStack

execute(command) ==
    LET newState == CmdExecute(command, Current) IN
    /\ boxes' = newState.boxes
    /\ connections' = newState.connections
    /\ undoStack' = Append(undoStack, command)
    /\ redoStack' = <<>>

\* The record of the last operation: the state before it (S), the state
\* after it (S1), and how far an execute / undo / redo round trip has gone;
\* for an undo also the two stacks it found (U, R).
Executed(op, command) ==
    /\ Len(undoStack) < MaxHistory
    /\ execute(command)
    /\ last' = [op |-> op, phase |-> "executed", S |-> Current,
                S1 |-> CanvasState(boxes', connections'), hadRedo |-> redoStack # <<>>]

IdsOfCommand(command) ==
    CASE command.type = "addBox" -> {command.box.id}
      [] command.type = "deleteBox" -> {command.deletedBox.id}
      [] command.type = "move" ->
            BoxIdsOf(command.oldState.boxes) \cup BoxIdsOf(command.newState.boxes)
      [] OTHER -> {}

\* uuidv4(): an id that no box of the state or of a command that can still
\* be undone carries.
uuidv4 ==
    LET used == BoxIdsOf(boxes)
                  \cup UNION {IdsOfCommand(undoStack[i]) : i \in 1..Len(undoStack)}
    IN CHOOSE n \in 1..(Cardinality(used) + 1) :
          n \notin used /\ \A m \in 1..(n - 1) : m \in used

\* The cells the pointer reaches: one row of the grid.
GridXs == 0..(GridW - 1)
GridYs == {0}
TargetXs == -1..(GridW - 1)

\* Double click on an empty cell: a 2 x 1 box with the clicked cell as origin.
AddBox ==
    \E gridX \in GridXs, gridY \in GridYs :
        /\ Len(boxes) < MaxBoxes
        /\ findBoxAt(boxes, gridX, gridY) = 0
        /\ Executed("addBox",
               AddBoxCommand(Box(uuidv4, gridX, gridY, 2, 1, EmptyText, FALSE)))

\* Text input into a box: the box takes the text and the size computed for it.
UpdateBox ==
    \E id \in BoxIdsOf(boxes), text \in Texts :
        LET boxToUpdate == boxes[FindIndex(boxes, id)]
            size == calculateSizeForTextWithMonoFont(text)
        IN Executed("updateBox",
               UpdateBoxCommand(id, boxToUpdate.text, text, boxToUpdate.width, size.width,
                                boxToUpdate.height, size.height))

DeleteBox ==
    \E id \in BoxIdsOf(boxes) :
        LET boxToDelete == boxes[FindIndex(boxes, id)]
            connectionsToDelete ==
                SelectSeq(connections, LAMBDA c : c.from = id \/ c.to = id)
        IN Executed("deleteBox", DeleteBoxCommand(id, boxToDelete, connectionsToDelete))

\* Whole canvas inside the part of the grid the model explores.
OnGrid(bs) == \A i \in 1..Len(bs) : bs[i].x < GridW

MoveBoxes ==
    \E id \in BoxIdsOf(boxes), newX \in TargetXs, newY \in GridYs :
        LET oldState == Current
            newState == CanvasState(MoveBoxUpdater(boxes, id, newX, newY), connections)
        IN /\ OnGrid(newState.boxes)
           /\ Executed("move", MoveCommand(oldState, newState))

\* An addConnection that also connects a box to itself.
AddConnectionAllowsSelfLoop ==
    \E from \in BoxIdsOf(boxes), to \in BoxIdsOf(boxes) :
        IF connectionExists(connections, from, to)
        THEN /\ UNCHANGED <<boxes, connections, undoStack, redoStack>>
             /\ last' = [op |-> "addConnection", phase |-> "none", S |-> Current,
                         S1 |-> Current, hadRedo |-> redoStack # <<>>,
                         from |-> from, to |-> to]
        ELSE /\ Len(undoStack) < MaxHistory
             /\ execute(AddConnectionCommand(Connection(from, to, "Forward")))
             /\ last' = [op |-> "addConnection", phase |-> "executed", S |-> Current,
                         S1 |-> CanvasState(boxes', connections'),
                         hadRedo |-> redoStack # <<>>, from |-> from, to |-> to]

\* A click on a second box with the connect gesture; the record of the
\* operation also keeps the two ids that were asked for.
AddConnection ==
    \E from \in BoxIdsOf(boxes), to \in BoxIdsOf(boxes) :
        IF from = to \/ connectionExists(connections, from, to)
        THEN /\ UNCHANGED <<boxes, connections, undoStack, redoStack>>
             /\ last' = [op |-> "addConnection", phase |-> "none", S |-> Current,
                         S1 |-> Current, hadRedo |-> redoStack # <<>>,
                         from |-> from, to |-> to]
        ELSE /\ Len(undoStack) < MaxHistory
             /\ execute(AddConnectionCommand(Connection(from, to, "Forward")))
             /\ last' = [op |-> "addConnection", phase |-> "executed", S |-> Current,
                         S1 |-> CanvasState(boxes', connections'),
                         hadRedo |-> redoStack # <<>>, from |-> from, to |-> to]

\* The selected boxes, in canvas order, are connected to the clicked box.
ToggleConnections ==
    \E fromSet \in (SUBSET BoxIdsOf(boxes)) \ {{}}, toId \in BoxIdsOf(boxes) :
        LET fromIds == SelectSeq([i \in 1..Len(boxes) |-> boxes[i].id],
                                 LAMBDA id : id \in fromSet)
            oldState == Current
            newState == CanvasState(boxes, add_many(connections, fromIds, toId))
        IN Executed("toggleConnections", MoveCommand(oldState, newState))

\* A replacement that finds the connection only the way round it was asked.
replaceConnectionAsAsked(oldState, updatedConnection, from, to) ==
    [oldState EXCEPT !.connections =
        [i \in 1..Len(@) |->
            IF @[i].from = from /\ @[i].to = to
            THEN updatedConnection
            ELSE @[i]]]

\* A replacement that drops what the backend returned.
replaceConnectionDropped(oldState, updatedConnection, from, to) == oldState

\* newState of cycleConnectionType: the connection of the pair, whichever
\* way round it is stored, gives way to the one the backend returned.
replaceConnection(oldState, updatedConnection, from, to) ==
    [oldState EXCEPT !.connections =
        [i \in 1..Len(@) |->
            IF \/ @[i].from = from /\ @[i].to = to
               \/ @[i].from = to /\ @[i].to = from
            THEN updatedConnection
            ELSE @[i]]]

CycleConnectionType ==
    \E from \in BoxIdsOf(boxes), to \in BoxIdsOf(boxes) :
        LET oldState == Current
            updatedConnection == cycle_type(connections, from, to)
            newState == replaceConnection(oldState, updatedConnection, from, to)
        IN /\ updatedConnection # NoConnection
           /\ Executed("cycleConnectionType", MoveCommand(oldState, newState))

\* undo(): what it does to the canvas and the two stacks.
undoState ==
    IF undoStack = <<>>
    THEN UNCHANGED <<boxes, connections, undoStack, redoStack>>
    ELSE LET lastCommand == undoStack[Len(undoStack)]
             newState == CmdUndo(lastCommand, Current)
         IN /\ boxes' = newState.boxes
            /\ connections' = newState.connections
            /\ undoStack' = SubSeq(undoStack, 1, Len(undoStack) - 1)
            /\ redoStack' = Append(redoStack, lastCommand)

\* An undo that, finding nothing to undo, forgets what could be redone.
undoEmptyDropsRedo ==
    IF undoStack = <<>>
    THEN /\ UNCHANGED <<boxes, connections, undoStack>>
         /\ redoStack' = <<>>
         /\ last' = [op |-> "undo", phase |-> "none", S |-> Current, S1 |-> Current,
                     hadRedo |-> redoStack # <<>>,
                     U |-> undoStack, R |-> redoStack]
    ELSE LET lastCommand == undoStack[Len(undoStack)]
             newState == CmdUndo(lastCommand, Current)
         IN /\ boxes' = newState.boxes
            /\ connections' = newState.connections
            /\ undoStack' = SubSeq(undoStack, 1, Len(undoStack) - 1)
            /\ redoStack' = Append(redoStack, lastCommand)
            /\ last' = [op |-> "undo", phase |-> "none", S |-> Current,
                        S1 |-> newState, hadRedo |-> redoStack # <<>>,
                        U |-> undoStack, R |-> redoStack]

\* An undo that takes the oldest command of the undo stack instead of the
\* newest.
undoOldest ==
    IF undoStack = <<>>
    THEN /\ UNCHANGED <<boxes, connections, undoStack, redoStack>>
         /\ last' = [op |-> "undo", phase |-> "none", S |-> Current, S1 |-> Current,
                     hadRedo |-> redoStack # <<>>,
                     U |-> undoStack, R |-> redoStack]
    ELSE LET lastCommand == undoStack[1]
             newState == CmdUndo(lastCommand, Current)
         IN /\ boxes' = newState.boxes
            /\ connections' = newState.connections
            /\ undoStack' = Tail(undoStack)
            /\ redoStack' = Append(redoStack, lastCommand)
            /\ last' = [op |-> "undo", phase |-> "none", S |-> Current,
                        S1 |-> newState, hadRedo |-> redoStack # <<>>,
                        U |-> undoStack, R |-> redoStack]

undo ==
    /\ undoState
    /\ last' = IF undoStack = <<>>
               THEN [op |-> "undo", phase |-> "none", S |-> Current, S1 |-> Current,
                     hadRedo |-> redoStack # <<>>,
                     U |-> undoStack, R |-> redoStack]
               ELSE IF last.phase \in {"executed", "redone"}
                    THEN [op |-> "undo", phase |-> "undone", S |-> last.S,
                          S1 |-> last.S1, hadRedo |-> redoStack # <<>>,
                          U |-> undoStack, R |-> redoStack]
                    ELSE [op |-> "undo", phase |-> "none", S |-> Current,
                          S1 |-> CanvasState(boxes', connections'),
                          hadRedo |-> redoStack # <<>>,
                          U |-> undoStack, R |-> redoStack]

\* redo(): what it does to the canvas and the two stacks.
redoState ==
    IF redoStack = <<>>
    THEN UNCHANGED <<boxes, connections, undoStack, redoStack>>
    ELSE LET lastCommand == redoStack[Len(redoStack)]
             newState == CmdExecute(lastCommand, Current)
         IN /\ boxes' = newState.boxes
            /\ connections' = newState.connections
            /\ redoStack' = SubSeq(redoStack, 1, Len(redoStack) - 1)
            /\ undoStack' = Append(undoStack, lastCommand)

redo ==
    /\ redoState
    /\ last' = IF redoStack = <<>>
               THEN [op |-> "redo", phase |-> "none", S |-> Current, S1 |-> Current,
                     hadRedo |-> FALSE]
               ELSE IF last.phase = "undone"
                    THEN [op |-> "redo", phase |-> "redone", S |-> last.S,
                          S1 |-> last.S1, hadRedo |-> TRUE]
                    ELSE [op |-> "redo", phase |-> "none", S |-> Current,
                          S1 |-> CanvasState(boxes', connections'), hadRedo |-> TRUE]

\* The canvas the front end starts from: empty until get_full_state answers,
\* then the canvas the backend holds.
FetchedStates ==
    {CanvasState(<<>>, <<>>),
     CanvasState(<<Box(1, 0, 0, 2, 1, EmptyText, FALSE), Box(2, 2, 0, 2, 1, EmptyText, FALSE)>>,
                 <<>>),
     CanvasState(<<Box(1, 0, 0, 2, 1, EmptyText, FALSE), Box(2, 2, 0, 2, 1, EmptyText, FALSE)>>,
                 <<Connection(1, 2, "Forward")>>)}

Init ==
    /\ \E initialState \in FetchedStates :
          boxes = initialState.boxes /\ connections = initialState.connections
    /\ undoStack = <<>>
    /\ redoStack = <<>>
    /\ last = [op |-> "init", phase |-> "none", S |-> Current, S1 |-> Current,
               hadRedo |-> FALSE]

Next ==
    \/ AddBox
    \/ UpdateBox
    \/ DeleteBox
    \/ MoveBoxes
    \/ AddConnection
    \/ ToggleConnections
    \/ CycleConnectionType
    \/ undo
    \/ redo

Spec == Init /\ [][Next]_vars

(***************************************************************************)
(* Properties of the canvas under the command history.                      *)
(***************************************************************************)
LastCommand == undoStack[Len(undoStack)]

\* C1 (as stated): after any sequence of add box, update text, move, delete,
\* undo and redo from a canvas without overlap, no two distinct boxes of the
\* canvas intersect.
CanvasNeverOverlaps == NoOverlap(boxes)

\* C8 (as stated): an add box whose rectangle intersects an existing box is
\* rejected, the boxes of the canvas stay as they were.
AddBoxRejectedOnOverlap ==
    (/\ last.op = "addBox"
     /\ \E i \in 1..Len(last.S.boxes) : Intersects(LastCommand.box, last.S.boxes[i]))
        => boxes = last.S.boxes

Count(s, e) == Cardinality({i \in 1..Len(s) : s[i] = e})

\* Equal as unordered collections.
SameCollection(s, t) ==
    /\ Len(s) = Len(t)
    /\ \A i \in 1..Len(s) : Count(s, s[i]) = Count(t, s[i])

SameState(a, b) ==
    /\ SameCollection(a.boxes, b.boxes)
    /\ SameCollection(a.connections, b.connections)

\* C9: a command executed on state S giving S1, then undone, leaves a state
\* equal to S as unordered collections of boxes and connections, and a redo
\* that follows leaves a state equal to S1, whatever the command.
UndoRedoRoundTrip ==
    /\ last.phase = "undone" => SameState(Current, last.S)
    /\ last.phase = "redone" => SameState(Current, last.S1)

\* A delete that took a connection with it has been undone and redone, and
\* the undo had put the box back at another place of the list.
DeleteUndoneAndRedone ==
    /\ last.phase = "redone"
    /\ LastCommand.type = "deleteBox"
    /\ LastCommand.deletedConnections # <<>>
    /\ Len(last.S.boxes) > 1
    /\ last.S.boxes[Len(last.S.boxes)] # LastCommand.deletedBox
    /\ Current = last.S1

\* C10: every execute leaves the redo stack empty, also the execute that
\* follows an undo.
ExecuteClearsRedo == last.phase = "executed" => redoStack = <<>>

\* execute(cmd1); undo(); execute(cmd2): the redo stack held cmd1.
ExecutedAfterUndo ==
    /\ last.phase = "executed"
    /\ last.hadRedo
    /\ undoStack # <<>>
    /\ redoStack = <<>>

\* C11: an undo with an empty undo stack and a redo with an empty redo
\* stack change neither the canvas nor the undo stack nor the redo stack.
EmptyStackNoOp ==
    [][(\/ last'.op = "undo" /\ undoStack = <<>>
        \/ last'.op = "redo" /\ redoStack = <<>>)
          => UNCHANGED <<boxes, connections, undoStack, redoStack>>]_vars

\* An undo found the undo stack empty while a command waited on the redo
\* stack (a real undo would have left two commands there).
UndoFoundNothing ==
    /\ last.op = "undo"
    /\ undoStack = <<>>
    /\ last.hadRedo
    /\ Len(redoStack) = 1
    /\ boxes # <<>>

\* C12: after the delete of box X the canvas holds no box with id X and no
\* connection from or to X, and every other box and every connection that
\* does not touch X is there as before.
DeleteCascades ==
    (last.op = "deleteBox" /\ last.phase = "executed") =>
        LET X == LastCommand.boxId
            Touches(c) == c.from = X \/ c.to = X
        IN /\ \A i \in 1..Len(boxes) : boxes[i].id # X
           /\ \A i \in 1..Len(connections) : ~Touches(connections[i])
           /\ \A i \in 1..Len(last.S.boxes) :
                 last.S.boxes[i].id # X => Count(boxes, last.S.boxes[i]) = 1
           /\ \A i \in 1..Len(boxes) : Count(last.S.boxes, boxes[i]) = 1
           /\ \A i \in 1..Len(last.S.connections) :
                 ~Touches(last.S.connections[i])
                    => Count(connections, last.S.connections[i]) = 1
           /\ \A i \in 1..Len(connections) : Count(last.S.connections, connections[i]) = 1

\* The box at the far end of a connection was deleted and the other box stays.
DeletedConnectedBox ==
    /\ last.op = "deleteBox" /\ last.phase = "executed"
    /\ \E i \in 1..Len(last.S.connections) : last.S.connections[i].to = LastCommand.boxId
    /\ Len(boxes) >= 1
    /\ Len(connections) < Len(last.S.connections)

ConnectionInvariant ==
    /\ \A i \in 1..Len(connections) : connections[i].from # connections[i].to
    /\ \A i, j \in 1..Len(connections) :
          i # j => {connections[i].from, connections[i].to}
                     # {connections[j].from, connections[j].to}

\* The same box was asked for as both ends, on a canvas that has a connection.
SelfLoopAsked ==
    /\ last.op = "addConnection"
    /\ last.from = last.to
    /\ connections # <<>>

\* C15: an addConnection(from, to) with from = to or with the two boxes
\* already connected either way round leaves connections, undo stack and
\* redo stack as they are; any other adds exactly the connection (from, to)
\* of type Forward.
AddConnectionNoOpOrForward ==
    [][last'.op = "addConnection" =>
         LET from == last'.from
             to == last'.to
         IN IF \/ from = to
               \/ \E i \in 1..Len(connections) :
                     {connections[i].from, connections[i].to} = {from, to}
            THEN UNCHANGED <<connections, undoStack, redoStack>>
            ELSE connections' = connections \o <<[from |-> from, to |-> to, type |-> "Forward"]>>]_vars

\* The pair was already connected the other way round and nothing was added.
ReverseDuplicateIgnored ==
    /\ last.op = "addConnection"
    /\ last.phase = "none"
    /\ \E i \in 1..Len(connections) :
          connections[i].from = last.to /\ connections[i].to = last.from
    /\ last.from # last.to

(***************************************************************************)
(* Selection (useCanvas.ts): updaters given to setCanvasState, which writes *)
(* the canvas state without going through execute.                          *)
(***************************************************************************)
\* A toggle that selects and never unselects.
toggleBoxSelectionOnly(prevBoxes, id) ==
    [i \in 1..Len(prevBoxes) |->
        IF prevBoxes[i].id = id
        THEN [prevBoxes[i] EXCEPT !.selected = TRUE]
        ELSE prevBoxes[i]]

toggleBoxSelection(prevBoxes, id) ==
    [i \in 1..Len(prevBoxes) |->
        IF prevBoxes[i].id = id
        THEN [prevBoxes[i] EXCEPT !.selected = ~@]
        ELSE prevBoxes[i]]

\* A clear that spares the first box of the canvas.
clearSelectionButFirst(prevBoxes) ==
    [i \in 1..Len(prevBoxes) |->
        IF i = 1 THEN prevBoxes[i] ELSE [prevBoxes[i] EXCEPT !.selected = FALSE]]

clearSelection(prevBoxes) ==
    [i \in 1..Len(prevBoxes) |-> [prevBoxes[i] EXCEPT !.selected = FALSE]]

\* A select that adds to the selection there was.
selectBoxesAdding(prevBoxes, ids) ==
    [i \in 1..Len(prevBoxes) |->
        [prevBoxes[i] EXCEPT !.selected = @ \/ prevBoxes[i].id \in ids]]

selectBoxes(prevBoxes, ids) ==
    [i \in 1..Len(prevBoxes) |->
        [prevBoxes[i] EXCEPT !.selected = prevBoxes[i].id \in ids]]

\* A state write that also empties the redo stack.
setCanvasStateDropsRedo(newBoxes, record) ==
    /\ boxes' = newBoxes
    /\ redoStack' = <<>>
    /\ UNCHANGED <<connections, undoStack>>
    /\ last' = record

\* setCanvasState(prevState => ({...prevState, boxes: newBoxes})); record is
\* the record of the operation that made the write.
setCanvasState(newBoxes, record) ==
    /\ boxes' = newBoxes
    /\ UNCHANGED <<connections, undoStack, redoStack>>
    /\ last' = record

\* The record of an operation that does not go through the history.
Direct(op, newBoxes) ==
    [op |-> op, phase |-> "none", S |-> Current,
     S1 |-> CanvasState(newBoxes, connections), hadRedo |-> redoStack # <<>>]

\* Ids a caller may hold: those of the boxes and 0, the id of no box.
KnownIds == BoxIdsOf(boxes) \cup {0}

ToggleBoxSelection ==
    \E id \in KnownIds :
        LET newBoxes == toggleBoxSelection(boxes, id) IN
        setCanvasState(newBoxes,
            [op |-> "toggleBoxSelection", phase |-> "none", S |-> Current,
             S1 |-> CanvasState(newBoxes, connections), hadRedo |-> redoStack # <<>>,
             id |-> id])

ClearSelection ==
    LET newBoxes == clearSelection(boxes) IN
    setCanvasState(newBoxes, Direct("clearSelection", newBoxes))

SelectBoxes ==
    \E ids \in SUBSET BoxIdsOf(boxes) :
        LET newBoxes == selectBoxes(boxes, ids) IN
        setCanvasState(newBoxes,
            [op |-> "selectBoxes", phase |-> "none", S |-> Current,
             S1 |-> CanvasState(newBoxes, connections), hadRedo |-> redoStack # <<>>,
             ids |-> ids])

\* The result of a left button press without modifier on the cell.
PressResult(prevBoxes, gridX, gridY) ==
    LET clickedBox == findBoxAt(prevBoxes, gridX, gridY) IN
    IF clickedBox # 0
    THEN IF ~prevBoxes[clickedBox].selected
         THEN toggleBoxSelection(clearSelection(prevBoxes), prevBoxes[clickedBox].id)
         ELSE prevBoxes
    ELSE IF \E i \in 1..Len(prevBoxes) : prevBoxes[i].selected
         THEN clearSelection(prevBoxes)
         ELSE prevBoxes

\* Cells a press can land on: the row of the boxes and the row below.
PressXs == 0..(GridW + 1)
PressYs == {0, 1}

\* handleMouseDown, left button, no ctrl, not a double click.
MouseDownPlain ==
    \E gridX \in PressXs, gridY \in PressYs :
        LET clickedBox == findBoxAt(boxes, gridX, gridY)
            newBoxes == PressResult(boxes, gridX, gridY)
        IN setCanvasState(newBoxes,
               [op |-> "mouseDown", phase |-> "none", S |-> Current,
                S1 |-> CanvasState(newBoxes, connections), hadRedo |-> redoStack # <<>>,
                id |-> IF clickedBox = 0 THEN 0 ELSE boxes[clickedBox].id])

NextSelect ==
    \/ ToggleBoxSelection
    \/ ClearSelection
    \/ SelectBoxes
    \/ MouseDownPlain
    \/ AddConnection
    \/ DeleteBox
    \/ undo
    \/ redo

SpecSelect == Init /\ [][NextSelect]_vars

(***************************************************************************)
(* Properties of the selection operations.                                  *)
(***************************************************************************)
\* C16: toggleBoxSelection, selectBoxes and clearSelection never push onto
\* the undo stack and never change the redo stack.
SelectionBypassesHistory ==
    [][last'.op \in {"toggleBoxSelection", "selectBoxes", "clearSelection"}
          => UNCHANGED <<undoStack, redoStack>>]_vars

\* A selection was changed while both stacks held a command.
SelectedWithFullStacks ==
    /\ last.op \in {"toggleBoxSelection", "selectBoxes", "clearSelection"}
    /\ boxes # last.S.boxes
    /\ undoStack # <<>>
    /\ redoStack # <<>>

\* C17: toggle(id) flips the selected flag of the box with that id and of no
\* other, changes no position, size or text and no connection; with an id of
\* no box the state is unchanged.
ToggleFlipsOne ==
    last.op = "toggleBoxSelection" =>
        /\ Len(boxes) = Len(last.S.boxes)
        /\ connections = last.S.connections
        /\ \A i \in 1..Len(boxes) :
              LET old == last.S.boxes[i] IN
              /\ boxes[i].id = old.id
              /\ boxes[i].x = old.x /\ boxes[i].y = old.y
              /\ boxes[i].width = old.width /\ boxes[i].height = old.height
              /\ boxes[i].text = old.text
              /\ boxes[i].selected = (IF old.id = last.id THEN ~old.selected ELSE old.selected)
        /\ (\A i \in 1..Len(last.S.boxes) : last.S.boxes[i].id # last.id) => Current = last.S

\* A selected box was toggled off while another box stayed selected.
ToggledOffBesideSelected ==
    /\ last.op = "toggleBoxSelection"
    /\ \E i, j \in 1..Len(boxes) :
          /\ i # j
          /\ last.S.boxes[i].id = last.id
          /\ last.S.boxes[i].selected /\ ~boxes[i].selected
          /\ boxes[j].selected
    /\ connections # <<>>

\* C18: after selectBoxes(ids) a box is selected if and only if its id is in
\* ids, whatever was selected before.
SelectExact ==
    last.op = "selectBoxes" =>
        \A i \in 1..Len(boxes) : boxes[i].selected <=> boxes[i].id \in last.ids

\* A box selected before is left out of ids, a box unselected before is in.
SelectionReplaced ==
    /\ last.op = "selectBoxes"
    /\ \E i, j \in 1..Len(boxes) :
          /\ last.S.boxes[i].selected /\ last.S.boxes[i].id \notin last.ids
          /\ ~last.S.boxes[j].selected /\ last.S.boxes[j].id \in last.ids

\* C20: a left press without modifier on an unselected box ends with that
\* box selected and every other box unselected; on a selected box it changes
\* no selected flag.
SingleSelectClick ==
    (last.op = "mouseDown" /\ last.id # 0) =>
        /\ Len(boxes) = Len(last.S.boxes)
        /\ \A k \in 1..Len(boxes) :
              last.S.boxes[k].id = last.id =>
                 IF ~last.S.boxes[k].selected
                 THEN \A i \in 1..Len(boxes) : boxes[i].selected <=> i = k
                 ELSE \A i \in 1..Len(boxes) :
                         boxes[i].selected = last.S.boxes[i].selected

\* The press landed on the unselected second box while the first was selected.
ClickedBesideSelected ==
    /\ last.op = "mouseDown"
    /\ Len(last.S.boxes) > 1
    /\ last.S.boxes[1].selected
    /\ last.S.boxes[2].id = last.id
    /\ ~last.S.boxes[2].selected

(***************************************************************************)
(* Marquee selection (handleMouseDown with ctrl on an empty cell, then      *)
(* handleMouseUp).  The pointer is in world pixels; the code divides the    *)
(* marquee by gridSize and compares it with the boxes in cells.  Here both  *)
(* sides of every comparison are kept in pixels, the boxes multiplied by    *)
(* gridSize, which orders them the same way without fractions.              *)
(***************************************************************************)
gridSize == 20

Min(a, b) == IF a <= b THEN a ELSE b

InPixels(box) ==
    [x |-> box.x * gridSize, y |-> box.y * gridSize,
     width |-> box.width * gridSize, height |-> box.height * gridSize]

\* The test of the interaction hook: rectangles that only touch intersect.
marqueeDoBoxesIntersect(boxA, boxB) ==
    IF \/ boxA.x + boxA.width < boxB.x
       \/ boxB.x + boxB.width < boxA.x
       \/ boxA.y + boxA.height < boxB.y
       \/ boxB.y + boxB.height < boxA.y
    THEN FALSE
    ELSE TRUE

\* selectionRect from the two corners of the drag.
selectionRect(startX, startY, endX, endY) ==
    LET minX == Min(startX, endX)
        maxX == Max(startX, endX)
        minY == Min(startY, endY)
        maxY == Max(startY, endY)
    IN [x |-> minX, y |-> minY, width |-> maxX - minX, height |-> maxY - minY]

\* combinedIds: the boxes selected before and the boxes the marquee meets.
combinedIds(prevBoxes, rect) ==
    {prevBoxes[i].id : i \in {k \in 1..Len(prevBoxes) : prevBoxes[k].selected}}
      \cup {prevBoxes[i].id : i \in {k \in 1..Len(prevBoxes) :
                                      marqueeDoBoxesIntersect(InPixels(prevBoxes[k]), rect)}}

\* Pointer positions: every half cell of the columns of the grid and of the
\* two rows the boxes and the empty cells below them occupy.
WorldXs == {k * (gridSize \div 2) : k \in 0..(2 * GridW)}
WorldYs == {k * (gridSize \div 2) : k \in 0..(2 * ArenaH)}

MarqueeSelect ==
    \E startX \in WorldXs, startY \in WorldYs, endX \in WorldXs, endY \in WorldYs :
        LET rect == selectionRect(startX, startY, endX, endY)
            newBoxes == selectBoxes(boxes, combinedIds(boxes, rect))
        IN /\ findBoxAt(boxes, startX \div gridSize, startY \div gridSize) = 0
           /\ setCanvasState(newBoxes,
                  [op |-> "marquee", phase |-> "none", S |-> Current,
                   S1 |-> CanvasState(newBoxes, connections),
                   hadRedo |-> redoStack # <<>>, rect |-> rect])

NextMarquee ==
    \/ MarqueeSelect
    \/ ToggleBoxSelection

SpecMarquee == Init /\ [][NextMarquee]_vars

\* C19 (as stated): the marquee selects exactly the boxes selected before
\* and the boxes whose rectangle intersects the marquee under the half-open
\* test; a box that only touches the edge of the marquee and was not
\* selected before is not selected.
MarqueeSelectsHalfOpen ==
    last.op = "marquee" =>
        \A i \in 1..Len(boxes) :
            boxes[i].selected <=>
                \/ last.S.boxes[i].selected
                \/ Intersects(InPixels(last.S.boxes[i]), last.rect)

(***************************************************************************)
(* Runs of type cycles on one connection.  The record of a cycle keeps the  *)
(* pair asked for, how many cycles in a row were asked for that pair (run)  *)
(* and the type the connection had before the first of them (type0).        *)
(***************************************************************************)
MaxCycles == 3

TypeOfPair(cs, from, to) ==
    IF connectionExists(cs, from, to)
    THEN LET i == CHOOSE k \in 1..Len(cs) : {cs[k].from, cs[k].to} = {from, to}
         IN cs[i].type
    ELSE "null"

\* A cycle that records a command although the backend found no connection.
CycleConnectionTypeCallAlways ==
    \E from \in BoxIdsOf(boxes), to \in BoxIdsOf(boxes) :
        LET oldState == Current
            updatedConnection == cycle_type(connections, from, to)
            newState == replaceConnection(oldState, updatedConnection, from, to)
        IN /\ Len(undoStack) < MaxCycles
           /\ execute(MoveCommand(oldState, newState))
           /\ last' = [op |-> "cycleConnectionType", phase |-> "executed",
                       S |-> Current, S1 |-> CanvasState(boxes', connections'),
                       hadRedo |-> redoStack # <<>>, from |-> from, to |-> to,
                       run |-> 1, type0 |-> TypeOfPair(connections, from, to)]

\* cycleConnectionType(from, to) for any two boxes, connected or not.
CycleConnectionTypeCall ==
    \E from \in BoxIdsOf(boxes), to \in BoxIdsOf(boxes) :
        LET oldState == Current
            updatedConnection == cycle_type(connections, from, to)
            newState == replaceConnection(oldState, updatedConnection, from, to)
            continues == /\ last.op = "cycleConnectionType"
                         /\ last.phase = "executed"
                         /\ {last.from, last.to} = {from, to}
        IN IF updatedConnection # NoConnection
           THEN /\ Len(undoStack) < MaxCycles
                /\ execute(MoveCommand(oldState, newState))
                /\ last' = [op |-> "cycleConnectionType", phase |-> "executed",
                            S |-> Current, S1 |-> CanvasState(boxes', connections'),
                            hadRedo |-> redoStack # <<>>, from |-> from, to |-> to,
                            run |-> IF continues THEN last.run + 1 ELSE 1,
                            type0 |-> IF continues THEN last.type0
                                      ELSE TypeOfPair(connections, from, to)]
           ELSE /\ UNCHANGED <<boxes, connections, undoStack, redoStack>>
                /\ last' = [op |-> "cycleConnectionType", phase |-> "none",
                            S |-> Current, S1 |-> Current,
                            hadRedo |-> redoStack # <<>>, from |-> from, to |-> to,
                            run |-> 0, type0 |-> "null"]

NextCycle ==
    \/ CycleConnectionTypeCall
    \/ AddConnection
    \/ DeleteBox
    \/ undo
    \/ redo

SpecCycle == Init /\ [][NextCycle]_vars

CycledConnected == last.op = "cycleConnectionType" /\ last.phase = "executed"

Flipped(type) == IF type = "Forward" THEN "Bidirectional" ELSE "Forward"

\* C21: a cycle on a connected pair, asked either way round, turns Forward
\* into Bidirectional and Bidirectional into Forward and leaves the ends of
\* the connection, every other connection and the boxes as they were; two
\* cycles in a row on the pair give back the type there was.
CycleIsTwoState ==
    CycledConnected =>
        /\ boxes = last.S.boxes
        /\ Len(connections) = Len(last.S.connections)
        /\ \A i \in 1..Len(connections) :
              LET old == last.S.connections[i] IN
              IF {old.from, old.to} = {last.from, last.to}
              THEN /\ connections[i].from = old.from
                   /\ connections[i].to = old.to
                   /\ old.type = "Forward" => connections[i].type = "Bidirectional"
                   /\ old.type = "Bidirectional" => connections[i].type = "Forward"
              ELSE connections[i] = old
        /\ last.run = 2 => TypeOfPair(connections, last.from, last.to) = last.type0

\* The second cycle of a run, asked against the direction of the connection.
CycledTwiceBackwards ==
    /\ CycledConnected
    /\ last.run = 2
    /\ \E i \in 1..Len(connections) :
          connections[i].from = last.to /\ connections[i].to = last.from
    /\ last.type0 = "Forward"

CycleWithoutConnectionNoOp ==
    [][(/\ last'.op = "cycleConnectionType"
        /\ \A i \in 1..Len(connections) :
              {connections[i].from, connections[i].to} # {last'.from, last'.to})
          => UNCHANGED <<boxes, connections, undoStack, redoStack>>]_vars

\* Two different boxes without a connection were asked for while a command
\* waited on the redo stack.
CycleAskedUnconnected ==
    /\ last.op = "cycleConnectionType"
    /\ last.phase = "none"
    /\ last.from # last.to
    /\ redoStack # <<>>

(***************************************************************************)
(* Operations asked with the id of a box that is not on the canvas (id 0    *)
(* is the id of no box): a stale drag or edit that goes on after the box    *)
(* was deleted.  The record of the call keeps the id that was asked.        *)
(***************************************************************************)
ById(op, id, phase) ==
    [op |-> op, phase |-> phase, S |-> Current,
     S1 |-> CanvasState(boxes', connections'), hadRedo |-> redoStack # <<>>,
     id |-> id]

UpdateBoxCall ==
    \E id \in KnownIds, text \in Texts :
        IF id \notin BoxIdsOf(boxes)
        THEN /\ UNCHANGED <<boxes, connections, undoStack, redoStack>>
             /\ last' = ById("updateBox", id, "none")
        ELSE LET boxToUpdate == boxes[FindIndex(boxes, id)]
                 size == calculateSizeForTextWithMonoFont(text)
             IN /\ Len(undoStack) < MaxHistory
                /\ execute(UpdateBoxCommand(id, boxToUpdate.text, text,
                                            boxToUpdate.width, size.width,
                                            boxToUpdate.height, size.height))
                /\ last' = ById("updateBox", id, "executed")

DeleteBoxCall ==
    \E id \in KnownIds :
        IF id \notin BoxIdsOf(boxes)
        THEN /\ UNCHANGED <<boxes, connections, undoStack, redoStack>>
             /\ last' = ById("deleteBox", id, "none")
        ELSE LET boxToDelete == boxes[FindIndex(boxes, id)]
                 connectionsToDelete ==
                     SelectSeq(connections, LAMBDA c : c.from = id \/ c.to = id)
             IN /\ Len(undoStack) < MaxHistory
                /\ execute(DeleteBoxCommand(id, boxToDelete, connectionsToDelete))
                /\ last' = ById("deleteBox", id, "executed")

\* moveBoxes(id, newX, newY): whatever state move_box answers is wrapped in
\* a MoveCommand and executed.
MoveBoxesCall ==
    \E id \in KnownIds, newX \in TargetXs, newY \in GridYs :
        LET oldState == Current
            newState == CanvasState(MoveBoxUpdater(boxes, id, newX, newY), connections)
        IN /\ OnGrid(newState.boxes)
           /\ Len(undoStack) < MaxHistory
           /\ execute(MoveCommand(oldState, newState))
           /\ last' = ById("move", id, "executed")

NextStale ==
    \/ UpdateBoxCall
    \/ DeleteBoxCall
    \/ MoveBoxesCall
    \/ undo
    \/ redo

SpecStale == Init /\ [][NextStale]_vars

\* C24: an update, a delete or a move asked with an id that no box of the
\* canvas carries leaves boxes and connections as they were and records no
\* command on the undo stack.
InvalidReferenceNoOp ==
    [][(/\ last'.op \in {"updateBox", "deleteBox", "move"}
        /\ last'.phase \in {"none", "executed"}
        /\ last'.S = Current
        /\ last'.id \notin BoxIdsOf(boxes))
          => UNCHANGED <<boxes, connections, undoStack>>]_vars

(***************************************************************************)
(* Moving the selection.  move_selected_boxes is the chain propagation of   *)
(* a single move seeded with every selected box (spec section 4.2, group    *)
(* variant); the front end wraps the state it answers in a MoveCommand.     *)
(***************************************************************************)
move_selected_boxes(bs, dx, dy) ==
    LET selectedBoxes == SelectSeq(bs, LAMBDA b : b.selected)
        seeds == [i \in 1..Len(selectedBoxes) |-> Translate(selectedBoxes[i], dx, dy)]
    IN
    IF (dx = 0 /\ dy = 0) \/ seeds = <<>> THEN bs
    ELSE IF \E i \in 1..Len(seeds) : seeds[i].x < 0 \/ seeds[i].y < 0 THEN bs
    ELSE
    LET r == Propagate(bs, 1, seeds, dx, dy) IN
    IF r.rejected THEN bs
    ELSE
    LET finalBoxes == [i \in 1..Len(bs) |->
                          IF MapHas(r.toUpdate, bs[i].id)
                          THEN MapGet(r.toUpdate, bs[i].id)
                          ELSE bs[i]]
    IN IF HasResidualCollision(r.toUpdate, finalBoxes) THEN bs ELSE finalBoxes

\* The displacements of one drag step and the part of the grid explored.
Deltas == {-1, 0, 1}

OnGroupGrid(bs) == \A i \in 1..Len(bs) : bs[i].x <= GridW /\ bs[i].y <= 1

GroupRecord(dx, dy) ==
    [op |-> "moveSelected", phase |-> "executed", S |-> Current,
     S1 |-> CanvasState(boxes', connections'), hadRedo |-> redoStack # <<>>,
     dx |-> dx, dy |-> dy]

\* A group move made as single moves, one selected box after the other.
MoveSelectedBoxesOneByOne ==
    \E deltaX \in Deltas, deltaY \in Deltas :
        LET oldState == Current
            Step(bs, i) == IF oldState.boxes[i].selected
                           THEN MoveBoxUpdater(bs, oldState.boxes[i].id,
                                               oldState.boxes[i].x + deltaX,
                                               oldState.boxes[i].y + deltaY)
                           ELSE bs
            newBoxes == IF Len(boxes) = 0 THEN boxes
                        ELSE IF Len(boxes) = 1 THEN Step(boxes, 1)
                        ELSE Step(Step(boxes, 1), 2)
            newState == CanvasState(newBoxes, connections)
        IN /\ Len(boxes) <= 2
           /\ OnGroupGrid(newState.boxes)
           /\ Len(undoStack) < MaxHistory
           /\ execute(MoveCommand(oldState, newState))
           /\ last' = GroupRecord(deltaX, deltaY)

MoveSelectedBoxes ==
    \E deltaX \in Deltas, deltaY \in Deltas :
        LET oldState == Current
            newState == CanvasState(move_selected_boxes(boxes, deltaX, deltaY), connections)
        IN /\ OnGroupGrid(newState.boxes)
           /\ Len(undoStack) < MaxHistory
           /\ execute(MoveCommand(oldState, newState))
           /\ last' = GroupRecord(deltaX, deltaY)

NextGroup ==
    \/ MoveSelectedBoxes
    \/ ToggleBoxSelection

SpecGroup == Init /\ [][NextGroup]_vars

MovedSelected == last.op = "moveSelected" /\ last.phase = "executed"

\* C25: a move of the selection either leaves every box as it was or moves
\* every selected box by exactly (dx, dy); when every box of the canvas is
\* selected and none would leave the canvas, the move is made, however the
\* boxes touch each other.
GroupRigidity ==
    MovedSelected =>
        LET old == last.S.boxes
            AllMoved == \A i \in 1..Len(old) :
                        old[i].selected => boxes[i] = Translate(old[i], last.dx, last.dy)
        IN /\ Len(boxes) = Len(old)
           /\ boxes = old \/ AllMoved
           /\ (/\ \A i \in 1..Len(old) :
                     /\ old[i].selected
                     /\ old[i].x + last.dx >= 0
                     /\ old[i].y + last.dy >= 0) => AllMoved

\* Two selected boxes that touch were moved sideways together.
AdjacentPairMoved ==
    /\ MovedSelected
    /\ Len(boxes) = 2
    /\ last.S.boxes[1].selected /\ last.S.boxes[2].selected
    /\ last.S.boxes[1].x + last.S.boxes[1].width = last.S.boxes[2].x
    /\ last.dx = 1
    /\ boxes # last.S.boxes

(***************************************************************************)
(* The intersection test on its own: two rectangles drawn from a small      *)
(* grid, sides of at least one cell, and one call of the test on them, in   *)
(* both orders.                                                             *)
(***************************************************************************)
MaxCoord == 2
MaxSide == 2

Rects ==
    [x : 0..MaxCoord, y : 0..MaxCoord, width : 1..MaxSide, height : 1..MaxSide]

InitIntersect ==
    /\ \E a \in Rects, b \in Rects : boxes = <<a, b>>
    /\ connections = <<>>
    /\ undoStack = <<>>
    /\ redoStack = <<>>
    /\ last = [op |-> "init"]

IntersectCall ==
    /\ last' = [op |-> "doBoxesIntersect",
                result |-> doBoxesIntersect(boxes[1], boxes[2]),
                reverse |-> doBoxesIntersect(boxes[2], boxes[1])]
    /\ UNCHANGED <<boxes, connections, undoStack, redoStack>>

NextIntersect == IntersectCall

SpecIntersect == InitIntersect /\ [][NextIntersect]_vars

\* C26: the test answers true exactly when a.x < b.x+b.w, b.x < a.x+a.w,
\* a.y < b.y+b.h and b.y < a.y+a.h; it gives the same answer with the
\* rectangles exchanged, and false for rectangles that only share an edge or
\* a corner.
IntersectsIsHalfOpen ==
    last.op = "doBoxesIntersect" =>
        LET a == boxes[1]
            b == boxes[2]
            touching == \/ a.x + a.width = b.x \/ b.x + b.width = a.x
                        \/ a.y + a.height = b.y \/ b.y + b.height = a.y
        IN /\ last.result = (/\ a.x < b.x + b.width
                             /\ b.x < a.x + a.width
                             /\ a.y < b.y + b.height
                             /\ b.y < a.y + a.height)
           /\ last.reverse = last.result
           /\ touching => ~last.result

\* The test was asked for two rectangles side by side that share an edge.
SharedEdgeAsked ==
    /\ last.op = "doBoxesIntersect"
    /\ boxes[1].x + boxes[1].width = boxes[2].x
    /\ boxes[1].y = boxes[2].y
    /\ ~last.result

(***************************************************************************)
(* Opening a file.  The front end parses the file, checks that it holds two *)
(* arrays and hands it to load_new_state; the state the backend answers     *)
(* becomes the canvas.  load_new_state validates the document (spec         *)
(* sections 6 and 7) and refuses it as a whole when it is malformed, which  *)
(* the front end meets as a rejected call.                                  *)
(***************************************************************************)
ValidDocument(newState) ==
    /\ UniqueIds(newState.boxes)
    /\ \A i \in 1..Len(newState.boxes) :
          newState.boxes[i].x >= 0 /\ newState.boxes[i].y >= 0
    /\ NoOverlap(newState.boxes)
    /\ \A i \in 1..Len(newState.connections) :
          /\ newState.connections[i].from \in BoxIdsOf(newState.boxes)
          /\ newState.connections[i].to \in BoxIdsOf(newState.boxes)
          /\ newState.connections[i].from # newState.connections[i].to

load_new_state(newState) ==
    IF ValidDocument(newState)
    THEN [ok |-> TRUE, state |-> newState]
    ELSE [ok |-> FALSE, state |-> newState]

\* The files that can be opened: up to two boxes out of a few that collide,
\* share an id or lie left of the origin, and at most one connection, which
\* may dangle or be a self-loop.  isArrays is false for a file whose boxes or
\* connections are not arrays.
FileBoxes ==
    {Box(1, 0, 0, 2, 1, EmptyText, FALSE), Box(2, 2, 0, 2, 1, EmptyText, FALSE),
     Box(2, 1, 0, 2, 1, EmptyText, FALSE), Box(1, 2, 0, 2, 1, EmptyText, FALSE),
     Box(2, -1, 0, 2, 1, EmptyText, FALSE)}

FileConnections ==
    {Connection(1, 2, "Forward"), Connection(2, 1, "Bidirectional"),
     Connection(1, 1, "Forward"), Connection(1, 3, "Forward")}

Files ==
    LET boxLists == {<<>>} \cup {<<b>> : b \in FileBoxes}
                       \cup {<<a, b>> : a \in FileBoxes, b \in FileBoxes}
        connectionLists == {<<>>} \cup {<<c>> : c \in FileConnections}
    IN {[isArrays |-> TRUE, state |-> CanvasState(bs, cs)] :
            bs \in boxLists, cs \in connectionLists}
         \cup {[isArrays |-> FALSE, state |-> CanvasState(<<>>, <<>>)]}

LoadRecord(file) ==
    [op |-> "loadFile", phase |-> "none", S |-> Current,
     S1 |-> CanvasState(boxes', connections'), hadRedo |-> redoStack # <<>>,
     file |-> file]

\* A loadFile that shows the parsed file without asking the backend.
LoadFileUnsynced ==
    \E file \in Files :
        /\ IF file.isArrays
           THEN /\ boxes' = file.state.boxes
                /\ connections' = file.state.connections
           ELSE UNCHANGED <<boxes, connections>>
        /\ UNCHANGED <<undoStack, redoStack>>
        /\ last' = LoadRecord(file)

LoadFile ==
    \E file \in Files :
        LET loadedState == file.state
            answer == load_new_state(loadedState)
        IN /\ IF file.isArrays /\ answer.ok
              THEN /\ boxes' = answer.state.boxes
                   /\ connections' = answer.state.connections
              ELSE UNCHANGED <<boxes, connections>>
           /\ UNCHANGED <<undoStack, redoStack>>
           /\ last' = LoadRecord(file)

NextLoad ==
    \/ LoadFile
    \/ ToggleBoxSelection

SpecLoad == Init /\ [][NextLoad]_vars

\* What makes a document malformed, case by case.
DuplicateIds(doc) ==
    \E i, j \in 1..Len(doc.boxes) : i < j /\ doc.boxes[i].id = doc.boxes[j].id

DanglingEndpoint(doc) ==
    \E i \in 1..Len(doc.connections) :
        \/ \A k \in 1..Len(doc.boxes) : doc.boxes[k].id # doc.connections[i].from
        \/ \A k \in 1..Len(doc.boxes) : doc.boxes[k].id # doc.connections[i].to

SelfLoop(doc) ==
    \E i \in 1..Len(doc.connections) : doc.connections[i].from = doc.connections[i].to

OverlappingBoxes(doc) ==
    \E i, j \in 1..Len(doc.boxes) : i < j /\ Intersects(doc.boxes[i], doc.boxes[j])

NegativeCoordinates(doc) ==
    \E i \in 1..Len(doc.boxes) : doc.boxes[i].x < 0 \/ doc.boxes[i].y < 0

\* C27: after the load of a document with duplicate ids, a dangling
\* endpoint, a self-loop, overlapping boxes or negative coordinates the
\* canvas is the canvas there was before; after any load it is either that
\* canvas or the whole document.
LoadAllOrNothing ==
    last.op = "loadFile" =>
        /\ (\/ DuplicateIds(last.file.state)
            \/ DanglingEndpoint(last.file.state)
            \/ SelfLoop(last.file.state)
            \/ OverlappingBoxes(last.file.state)
            \/ NegativeCoordinates(last.file.state)) => Current = last.S
        /\ Current = last.S \/ Current = last.file.state

\* A file with two overlapping boxes was opened over a canvas with a
\* selected box, and the canvas stayed.
OverlappingFileRefused ==
    /\ last.op = "loadFile"
    /\ last.file.isArrays
    /\ OverlappingBoxes(last.file.state)
    /\ ~DuplicateIds(last.file.state)
    /\ \E i \in 1..Len(boxes) : boxes[i].selected
    /\ Current = last.S

(***************************************************************************)
(* A drag and the move requests it sends (useInteraction handleMouseMove    *)
(* and handleMouseUp).  Here the record last holds the refs of the hook:    *)
(* draggingBox (0 when nothing is dragged), moveRequestRef (an animation    *)
(* frame is scheduled), latestMoveDataRef, and inFlight, the requests sent  *)
(* to the backend whose answer has not arrived, oldest first, each with the *)
(* canvas its caller captured as oldState.  It also keeps, of the last      *)
(* drag, the box (dragged), the last target asked (target) and whether      *)
(* every answer so far moved something (clean).                             *)
(***************************************************************************)
MaxInFlight == 2

NoMoveData == [boxId |-> 0, newX |-> 0, newY |-> 0, startX |-> 0, startY |-> 0]

InitThrottle ==
    /\ \E initialState \in FetchedStates :
          boxes = initialState.boxes /\ connections = initialState.connections
    /\ undoStack = <<>>
    /\ redoStack = <<>>
    /\ last = [op |-> "drag", draggingBox |-> 0, moveRequestRef |-> FALSE,
               latestMoveDataRef |-> NoMoveData, inFlight |-> <<>>,
               dragged |-> 0, target |-> <<0, 0>>, clean |-> TRUE]

\* The call the frame callback and handleMouseUp make for the latest move
\* data: moveSelectedBoxes for a selected box that moved, moveBoxes for an
\* unselected one.  The empty sequence when no call is made.
RequestsFor(data) ==
    LET c == FindIndex(boxes, data.boxId)
        deltaX == data.newX - data.startX
        deltaY == data.newY - data.startY
    IN IF c # 0 /\ boxes[c].selected
       THEN IF deltaX # 0 \/ deltaY # 0
            THEN <<[kind |-> "move_selected_boxes", boxId |-> data.boxId,
                    a |-> deltaX, b |-> deltaY, oldState |-> Current]>>
            ELSE <<>>
       ELSE <<[kind |-> "move_box", boxId |-> data.boxId,
               a |-> data.newX, b |-> data.newY, oldState |-> Current]>>

\* Press on a box without ctrl and the first mouse move past the threshold.
StartDragging ==
    \E id \in BoxIdsOf(boxes) :
        LET box == boxes[FindIndex(boxes, id)] IN
        /\ last.draggingBox = 0
        /\ boxes' = PressResult(boxes, box.x, box.y)
        /\ UNCHANGED <<connections, undoStack, redoStack>>
        /\ last' = [last EXCEPT !.draggingBox = id, !.dragged = id,
                                !.target = <<box.x, box.y>>, !.clean = TRUE]

\* handleMouseMove while a box is dragged.
MouseMoveDragging ==
    \E newGridX \in TargetXs, newGridY \in GridYs :
        LET c == FindIndex(boxes, last.draggingBox) IN
        /\ last.draggingBox # 0
        /\ UNCHANGED <<boxes, connections, undoStack, redoStack>>
        /\ last' = IF c = 0
                   THEN last
                   ELSE [last EXCEPT !.latestMoveDataRef =
                                         [boxId |-> last.draggingBox,
                                          newX |-> newGridX, newY |-> newGridY,
                                          startX |-> boxes[c].x, startY |-> boxes[c].y],
                                     !.moveRequestRef = TRUE,
                                     !.target = <<newGridX, newGridY>>]

\* The requestAnimationFrame callback.
AnimationFrame ==
    LET sent == IF last.latestMoveDataRef # NoMoveData
                THEN RequestsFor(last.latestMoveDataRef)
                ELSE <<>>
    IN /\ last.moveRequestRef
       /\ Len(last.inFlight) + Len(sent) <= MaxInFlight
       /\ UNCHANGED <<boxes, connections, undoStack, redoStack>>
       /\ last' = [last EXCEPT !.moveRequestRef = FALSE,
                               !.inFlight = last.inFlight \o sent]

\* handleMouseUp at the end of a drag.
MouseUpDragging ==
    LET sent == IF last.latestMoveDataRef # NoMoveData
                THEN RequestsFor(last.latestMoveDataRef)
                ELSE <<>>
    IN /\ last.draggingBox # 0
       /\ Len(last.inFlight) + Len(sent) <= MaxInFlight
       /\ UNCHANGED <<boxes, connections, undoStack, redoStack>>
       /\ last' = [last EXCEPT !.moveRequestRef = FALSE,
                               !.latestMoveDataRef = NoMoveData,
                               !.draggingBox = 0,
                               !.inFlight = last.inFlight \o sent]

\* The part of the grid a drag may leave the boxes in.
OnDragGrid(bs) == \A i \in 1..Len(bs) : bs[i].x <= GridW + 1 /\ bs[i].y <= 1

\* The answer of the oldest request arrives: moveBoxes / moveSelectedBoxes
\* go on after their await and execute the MoveCommand.
MoveAnswered ==
    /\ last.inFlight # <<>>
    /\ Len(undoStack) < MaxHistory
    /\ LET request == Head(last.inFlight)
           newBoxes == IF request.kind = "move_box"
                       THEN MoveBoxUpdater(boxes, request.boxId, request.a, request.b)
                       ELSE move_selected_boxes(boxes, request.a, request.b)
       IN /\ OnDragGrid(newBoxes)
          /\ execute(MoveCommand(request.oldState, CanvasState(newBoxes, connections)))
          /\ last' = [last EXCEPT !.inFlight = Tail(last.inFlight),
                                  !.clean = last.clean /\ newBoxes # boxes]

NextThrottle ==
    \/ StartDragging
    \/ MouseMoveDragging
    \/ AnimationFrame
    \/ MouseUpDragging
    \/ MoveAnswered

SpecThrottle == InitThrottle /\ [][NextThrottle]_vars

\* C28: during a drag at most one move request is in flight: none is sent
\* before the answer of the one before has arrived.
OneMoveInFlight == Len(last.inFlight) <= 1

(***************************************************************************)
(* Selection changes between snapshot commands and their undo: the type     *)
(* cycle, the connection toggle and the move keep the whole canvas before   *)
(* and after as oldState and newState, selected flags included.             *)
(***************************************************************************)
NextSnapshot ==
    \/ CycleConnectionType
    \/ ToggleConnections
    \/ MoveBoxes
    \/ ToggleBoxSelection
    \/ undo
    \/ redo

SpecSnapshot == Init /\ [][NextSnapshot]_vars

\* C29: an undo or a redo leaves the selected flag of every box that is on
\* the canvas before and after it as it was.
UndoRedoKeepSelection ==
    [][last'.op \in {"undo", "redo"} =>
          \A i \in 1..Len(boxes) : \A j \in 1..Len(boxes') :
              boxes[i].id = boxes'[j].id => boxes[i].selected = boxes'[j].selected]_vars

(***************************************************************************)
(* The two stacks under undo and redo.  The record of an undo keeps the     *)
(* stacks it found (U, R).                                                  *)
(***************************************************************************)
Top(stack) == stack[Len(stack)]

Front(stack) == SubSeq(stack, 1, Len(stack) - 1)

\* C30: an undo that finds a command removes exactly the top of the undo
\* stack, applies that command's undo to the canvas and pushes the command
\* on the redo stack; a redo that finds a command does the same from the
\* redo stack to the undo stack with the command's execute; a redo right
\* after such an undo leaves both stacks as the undo found them.  A command
\* that is executed goes on top of the undo stack, so commands are undone
\* newest first.
StackDiscipline ==
    [][/\ (last'.op = "undo" /\ undoStack # <<>>) =>
             /\ undoStack' = Front(undoStack)
             /\ redoStack' = Append(redoStack, Top(undoStack))
             /\ CanvasState(boxes', connections') = CmdUndo(Top(undoStack), Current)
       /\ (last'.op = "redo" /\ redoStack # <<>>) =>
             /\ redoStack' = Front(redoStack)
             /\ undoStack' = Append(undoStack, Top(redoStack))
             /\ CanvasState(boxes', connections') = CmdExecute(Top(redoStack), Current)
       /\ (last.op = "undo" /\ last.U # <<>> /\ last'.op = "redo") =>
             /\ undoStack' = last.U
             /\ redoStack' = last.R
       /\ (last'.op \notin {"undo", "redo"} /\ undoStack' # undoStack) =>
             /\ Front(undoStack') = undoStack
             /\ CanvasState(boxes', connections') = CmdExecute(Top(undoStack'), Current)
      ]_vars

\* Two different commands have been undone, the newer first: the undo of the
\* older found it alone on the undo stack and put it on top of the newer on
\* the redo stack.
UndoneNewestFirst ==
    /\ last.op = "undo"
    /\ Len(last.U) = 1
    /\ Len(redoStack) = 2
    /\ redoStack[1] # redoStack[2]
    /\ redoStack[1].type # "move"

(***************************************************************************)
(* The move under another enumeration order of the same boxes.              *)
(***************************************************************************)
Perms(n) == {p \in [1..n -> 1..n] : \A i, j \in 1..n : i # j => p[i] # p[j]}

Permuted(bs, p) == [i \in 1..Len(bs) |-> bs[p[i]]]

AsSet(bs) == {bs[i] : i \in 1..Len(bs)}

\* C31: for the boxes and the request of a move, the boxes that result are
\* the same, whatever the order in which the array lists the boxes: the same
\* boxes moved to the same places, or the same rejection.
OrderIndependent ==
    Moved =>
        \A p \in Perms(Len(last.pre)) :
            AsSet(MoveBoxUpdater(Permuted(last.pre, p), last.id, last.newX, last.newY))
                = AsSet(boxes)

\* A move that pushed two boxes in a canvas of three.
PushedTwoOfThree ==
    /\ Moved
    /\ Len(boxes) = 3
    /\ \A i \in 1..3 : boxes[i] # last.pre[i]

(***************************************************************************)
(* The planned set of the last move, as the loop leaves it.                 *)
(***************************************************************************)
AskedMove == Moved /\ DraggedIdx # 0 /\ (AskedDX # 0 \/ AskedDY # 0)

PlannedOfLast ==
    Propagate(last.pre, 1,
              <<[last.pre[DraggedIdx] EXCEPT !.x = Clamp0(last.newX),
                                             !.y = Clamp0(last.newY)]>>,
              AskedDX, AskedDY)

\* C32: when the queue of a move drains without a boundary abort, no planned
\* box meets a box that was not planned, and the move is made: the final
\* check rejects nothing.
ResidualCheckNeverFires ==
    (AskedMove /\ ~PlannedOfLast.rejected) =>
        LET toUpdate == PlannedOfLast.toUpdate IN
        /\ \A u \in 1..Len(toUpdate) : \A o \in 1..Len(last.pre) :
              ~MapHas(toUpdate, last.pre[o].id) => ~Intersects(toUpdate[u], last.pre[o])
        /\ \A i \in 1..Len(boxes) :
              boxes[i] = IF MapHas(toUpdate, last.pre[i].id)
                         THEN MapGet(toUpdate, last.pre[i].id)
                         ELSE last.pre[i]

\* A move pushed one box and came to rest beside a third that it left alone.
PushedOneBesideAnother ==
    /\ AskedMove
    /\ Len(boxes) = 3
    /\ Len(PlannedOfLast.toUpdate) = 2
    /\ boxes # last.pre
    /\ \E i \in 1..3 : \E j \in 1..3 :
          /\ boxes[i] # last.pre[i]
          /\ boxes[j] = last.pre[j]
          /\ boxes[i].x + boxes[i].width = boxes[j].x

\* C33: a move of a box of the canvas that gives back the canvas there was
\* (a rejection, or a displacement of zero) leaves the undo stack and the
\* redo stack as they were.
UnchangedMoveNotRecorded ==
    [][(/\ last'.op = "move"
        /\ last'.phase = "executed"
        /\ last'.id \in BoxIdsOf(boxes)
        /\ last'.S = Current
        /\ CanvasState(boxes', connections') = Current)
          => UNCHANGED <<undoStack, redoStack>>]_vars

(***************************************************************************)
(* The loop of the move, one dequeue at a time.  Here the record last holds *)
(* the locals of the updater: the dragged id, the displacement, the planned *)
(* map toUpdate (its values in insertion order, which is the queue), head,  *)
(* and whether the boundary check has returned.                             *)
(***************************************************************************)
\* Targets of the move: every column of the row and one on each side.
QueueXs == -1..(2 * MaxRow)

InitQueue ==
    /\ boxes \in {Row(k) : k \in 1..MaxRow}
    /\ connections = <<>>
    /\ undoStack = <<>>
    /\ redoStack = <<>>
    /\ \E id \in 1..MaxRow, newGridX \in QueueXs, newGridY \in RowYs :
          LET c == FindIndex(boxes, id)
              proposedX == Max(0, newGridX)
              proposedY == Max(0, newGridY)
          IN /\ c # 0
             /\ proposedX # boxes[c].x \/ proposedY # boxes[c].y
             /\ last = [op |-> "start", id |-> id,
                        deltaX |-> proposedX - boxes[c].x,
                        deltaY |-> proposedY - boxes[c].y,
                        toUpdate |-> <<[boxes[c] EXCEPT !.x = proposedX,
                                                         !.y = proposedY]>>,
                        head |-> 1, rejected |-> FALSE]

\* One turn of while (head < queue.length): dequeue a box and scan the others.
Dequeue ==
    /\ last.op \in {"start", "dequeue"}
    /\ ~last.rejected
    /\ last.head <= Len(last.toUpdate)
    /\ LET r == ScanOthers(boxes, 1, last.toUpdate[last.head], last.toUpdate,
                           last.deltaX, last.deltaY)
       IN last' = [last EXCEPT !.op = "dequeue", !.head = last.head + 1,
                               !.toUpdate = r.toUpdate, !.rejected = r.rejected]
    /\ UNCHANGED <<boxes, connections, undoStack, redoStack>>

\* The end of the updater: the early return of the boundary check, or the
\* final check and the new array.
FinishMove ==
    /\ last.op \in {"start", "dequeue"}
    /\ last.rejected \/ last.head > Len(last.toUpdate)
    /\ LET finalBoxes == [i \in 1..Len(boxes) |->
                             IF MapHas(last.toUpdate, boxes[i].id)
                             THEN MapGet(last.toUpdate, boxes[i].id)
                             ELSE boxes[i]]
       IN boxes' = IF last.rejected \/ HasResidualCollision(last.toUpdate, finalBoxes)
                   THEN boxes
                   ELSE finalBoxes
    /\ last' = [last EXCEPT !.op = "done"]
    /\ UNCHANGED <<connections, undoStack, redoStack>>

NextQueue ==
    \/ Dequeue
    \/ FinishMove

SpecQueue == InitQueue /\ [][NextQueue]_vars

\* C34: no box is planned and queued twice, the queue never holds more
\* entries than there are boxes, and no more boxes are dequeued than there
\* are.
PropagationBounded ==
    /\ Len(last.toUpdate) <= Len(boxes)
    /\ \A i, j \in 1..Len(last.toUpdate) :
          i # j => last.toUpdate[i].id # last.toUpdate[j].id
    /\ last.head - 1 <= Len(boxes)

\* Every box of a row of three was queued and dequeued, and the move ended.
WholeRowDequeued ==
    /\ last.op = "done"
    /\ Len(boxes) = 3
    /\ Len(last.toUpdate) = 3
    /\ last.head = 4

\* C35: when a drag of a selected box is over and every request it sent has
\* been answered, none of them rejected, the dragged box is at the last
\* target that was asked.
DragLandsOnTarget ==
    (/\ last.dragged # 0
     /\ last.draggingBox = 0
     /\ last.inFlight = <<>>
     /\ last.clean
     /\ FindIndex(boxes, last.dragged) # 0) =>
        LET box == boxes[FindIndex(boxes, last.dragged)] IN
        <<box.x, box.y>> = <<Max(0, last.target[1]), Max(0, last.target[2])>>

(***************************************************************************)
(* The front end and the backend side by side.  The backend keeps its own   *)
(* canvas and serves the requests one at a time in the order they were      *)
(* sent (spec sections 5 and 6).  Here the record last holds the canvas of  *)
(* the backend and the requests sent and not yet served, oldest first; a    *)
(* move request carries the canvas its caller captured as oldState.         *)
(***************************************************************************)
Request(kind, id, to, data, oldState) ==
    [kind |-> kind, id |-> id, to |-> to, data |-> data, oldState |-> oldState]

NoData == [text |-> EmptyText, width |-> 0, height |-> 0, x |-> 0, y |-> 0]

\* What the backend does with one request.
serve(B, request) ==
    CASE request.kind = "update_box_text" ->
            [B EXCEPT !.boxes =
                [i \in 1..Len(B.boxes) |->
                    IF B.boxes[i].id = request.id
                    THEN [B.boxes[i] EXCEPT !.text = request.data.text,
                                            !.width = request.data.width,
                                            !.height = request.data.height]
                    ELSE B.boxes[i]]]
      [] request.kind = "add_box" ->
            LET newBox == Box(request.id, request.data.x, request.data.y,
                              request.data.width, request.data.height,
                              request.data.text, FALSE)
            IN IF \E i \in 1..Len(B.boxes) : Intersects(newBox, B.boxes[i])
               THEN B
               ELSE [B EXCEPT !.boxes = Append(@, newBox)]
      [] request.kind = "delete_box" ->
            CanvasState(SelectSeq(B.boxes, LAMBDA b : b.id # request.id),
                        SelectSeq(B.connections,
                                  LAMBDA c : c.from # request.id /\ c.to # request.id))
      [] request.kind = "add_connection" ->
            [B EXCEPT !.connections = add_many(@, <<request.id>>, request.to)]
      [] request.kind = "move_box" ->
            [B EXCEPT !.boxes = MoveBoxUpdater(@, request.id, request.data.x,
                                               request.data.y)]

InitSync ==
    /\ \E initialState \in FetchedStates :
          /\ boxes = initialState.boxes
          /\ connections = initialState.connections
          /\ last = [backend |-> initialState, queue |-> <<>>]
    /\ undoStack = <<>>
    /\ redoStack = <<>>

\* An operation of the front end that executes its command at once and sends
\* the request without waiting for it.
Sent(command, request) ==
    /\ Len(undoStack) < MaxHistory
    /\ Len(last.queue) < MaxInFlight
    /\ execute(command)
    /\ last' = [last EXCEPT !.queue = Append(@, request)]

UpdateBoxSent ==
    \E id \in BoxIdsOf(boxes), text \in Texts :
        LET boxToUpdate == boxes[FindIndex(boxes, id)]
            size == calculateSizeForTextWithMonoFont(text)
        IN Sent(UpdateBoxCommand(id, boxToUpdate.text, text, boxToUpdate.width,
                                 size.width, boxToUpdate.height, size.height),
                Request("update_box_text", id, 0,
                        [NoData EXCEPT !.text = text, !.width = size.width,
                                       !.height = size.height], Current))

\* uuidv4() seen from both sides: an id that no box of the front end, of a
\* command that can still be undone, or of the backend carries.
uuidv4Unseen ==
    LET used == BoxIdsOf(boxes) \cup BoxIdsOf(last.backend.boxes)
                  \cup UNION {IdsOfCommand(undoStack[i]) : i \in 1..Len(undoStack)}
    IN CHOOSE n \in 1..(Cardinality(used) + 1) :
          n \notin used /\ \A m \in 1..(n - 1) : m \in used

AddBoxSent ==
    \E gridX \in GridXs, gridY \in GridYs :
        LET newBox == Box(uuidv4Unseen, gridX, gridY, 2, 1, EmptyText, FALSE) IN
        /\ Len(boxes) < MaxBoxes
        /\ findBoxAt(boxes, gridX, gridY) = 0
        /\ Sent(AddBoxCommand(newBox),
                Request("add_box", newBox.id, 0,
                        [NoData EXCEPT !.x = gridX, !.y = gridY, !.width = 2,
                                       !.height = 1], Current))

DeleteBoxSent ==
    \E id \in BoxIdsOf(boxes) :
        LET boxToDelete == boxes[FindIndex(boxes, id)]
            connectionsToDelete ==
                SelectSeq(connections, LAMBDA c : c.from = id \/ c.to = id)
        IN Sent(DeleteBoxCommand(id, boxToDelete, connectionsToDelete),
                Request("delete_box", id, 0, NoData, Current))

AddConnectionSent ==
    \E from \in BoxIdsOf(boxes), to \in BoxIdsOf(boxes) :
        /\ from # to
        /\ ~connectionExists(connections, from, to)
        /\ Sent(AddConnectionCommand(Connection(from, to, "Forward")),
                Request("add_connection", from, to, NoData, Current))

\* moveBoxes up to its await: the request leaves with the canvas of now as
\* oldState.
MoveBoxesSent ==
    \E id \in BoxIdsOf(boxes), newX \in GridXs, newY \in GridYs :
        /\ Len(last.queue) < MaxInFlight
        /\ UNCHANGED <<boxes, connections, undoStack, redoStack>>
        /\ last' = [last EXCEPT !.queue =
                       Append(@, Request("move_box", id, 0,
                                         [NoData EXCEPT !.x = newX, !.y = newY],
                                         Current))]

\* The backend serves the oldest request; the answer of a move is wrapped in
\* a MoveCommand and executed, the answer of the others is dropped.
BackendAnswers ==
    /\ last.queue # <<>>
    /\ LET request == Head(last.queue)
           answer == serve(last.backend, request)
       IN /\ OnGrid(answer.boxes)
          /\ IF request.kind = "move_box"
             THEN /\ Len(undoStack) < MaxHistory
                  /\ execute(MoveCommand(request.oldState, answer))
             ELSE UNCHANGED <<boxes, connections, undoStack, redoStack>>
          /\ last' = [backend |-> answer, queue |-> Tail(last.queue)]

undoUnsent == undoState /\ UNCHANGED last

redoUnsent == redoState /\ UNCHANGED last

NextInFlight ==
    \/ UpdateBoxSent
    \/ AddBoxSent
    \/ DeleteBoxSent
    \/ AddConnectionSent
    \/ MoveBoxesSent
    \/ BackendAnswers

SpecInFlight == InitSync /\ [][NextInFlight]_vars

\* The canvas shows what a request asked for.
Reflects(request, state) ==
    CASE request.kind = "update_box_text" ->
            \E i \in 1..Len(state.boxes) :
                /\ state.boxes[i].id = request.id
                /\ state.boxes[i].text = request.data.text
      [] request.kind = "add_box" -> request.id \in BoxIdsOf(state.boxes)
      [] request.kind = "delete_box" -> request.id \notin BoxIdsOf(state.boxes)
      [] request.kind = "add_connection" ->
            connectionExists(state.connections, request.id, request.to)
      [] OTHER -> TRUE

\* C36: when the answer of a move is applied, whatever an update, add or
\* delete made while the move was in flight shows on the canvas still shows
\* on it.
NoLostUpdate ==
    [][(/\ last.queue # <<>>
        /\ Head(last.queue).kind = "move_box"
        /\ Len(last'.queue) = Len(last.queue) - 1)
          => \A k \in 2..Len(last.queue) :
                Reflects(last.queue[k], Current)
                    => Reflects(last.queue[k], CanvasState(boxes', connections'))]_vars


(***************************************************************************)
(* A sequential run: an operation starts only when every request sent       *)
(* before it has been served.  undo and redo are those of useHistory, which *)
(* send nothing.                                                            *)
(***************************************************************************)
Idle == last.queue = <<>>

NextSequential ==
    \/ Idle /\ AddBoxSent
    \/ Idle /\ DeleteBoxSent
    \/ Idle /\ MoveBoxesSent
    \/ BackendAnswers
    \/ Idle /\ undoUnsent
    \/ Idle /\ redoUnsent

SpecSequential == InitSync /\ [][NextSequential]_vars

InStep(frontend, backend) ==
    /\ AsSet(frontend.boxes) = AsSet(backend.boxes)
    /\ AsSet(frontend.connections) = AsSet(backend.connections)

\* C37: in a sequential run undo() and redo() leave the front end's boxes and
\* connections equal to the backend's when they were equal before.
UndoRedoKeepInStep ==
    [][(/\ Idle
        /\ InStep(Current, last.backend)
        /\ last' = last)
          => InStep(CanvasState(boxes', connections'), last'.backend)]_vars


(***************************************************************************)
(* Documents and history: loading a file and changing the workspace next to *)
(* the commands and undo/redo of the canvas.                                *)
(***************************************************************************)
\* handleWorkspaceSet / handleChangeWorkspace: the canvas is emptied with
\* setCanvasState; nothing else of the history hook is called.
handleWorkspaceSet ==
    /\ boxes' = <<>>
    /\ connections' = <<>>
    /\ UNCHANGED <<undoStack, redoStack>>
    /\ last' = [op |-> "handleWorkspaceSet", phase |-> "none", S |-> Current,
                S1 |-> CanvasState(<<>>, <<>>), hadRedo |-> redoStack # <<>>]

\* The documents opened here: well-formed or not, at most one box each.
Documents ==
    {file \in Files : Len(file.state.boxes) <= 1 /\ file.state.connections = <<>>}

NextDocuments ==
    \/ LoadFile /\ last'.file \in Documents
    \/ handleWorkspaceSet
    \/ DeleteBox
    \/ undo
    \/ redo

SpecDocuments == Init /\ [][NextDocuments]_vars

\* The last operation replaced the canvas by another document.
DocumentReplaced ==
    \/ last.op = "handleWorkspaceSet"
    \/ /\ last.op = "loadFile"
       /\ last.file.isArrays
       /\ load_new_state(last.file.state).ok

\* C38: after the canvas is replaced by a loaded document or reset for a
\* workspace change, the undo and redo stacks are empty.
HistoryClearedWithDocument ==
    DocumentReplaced => undoStack = <<>> /\ redoStack = <<>>


(***************************************************************************)
(* The pointer on a panned canvas.  Here the record last holds the view of  *)
(* App: pan in pixels and zoom.                                             *)
(***************************************************************************)
MaxPan == 1

InitPan ==
    /\ \E initialState \in FetchedStates :
          /\ boxes = initialState.boxes
          /\ connections = initialState.connections
    /\ undoStack = <<>>
    /\ redoStack = <<>>
    /\ last = [pan |-> [x |-> 0, y |-> 0], zoom |-> 1]

screenToWorld(screenX, screenY) ==
    [worldX |-> (screenX - last.pan.x) \div last.zoom,
     worldY |-> (screenY - last.pan.y) \div last.zoom]

\* Pixels the pointer is pressed at: the corners of the first cells of the
\* viewport.
ScreenXs == {k * gridSize : k \in 0..(GridW - 1)}
ScreenYs == {0, gridSize}

\* Middle-button drag: the pan follows the pointer.
PanCanvas ==
    \E dx \in {-gridSize, 0, gridSize}, dy \in {-gridSize, 0, gridSize} :
        LET x == last.pan.x + dx
            y == last.pan.y + dy
        IN /\ x \in (-MaxPan * gridSize)..(MaxPan * gridSize)
           /\ y \in (-MaxPan * gridSize)..(MaxPan * gridSize)
           /\ last' = [last EXCEPT !.pan = [x |-> x, y |-> y]]
           /\ UNCHANGED <<boxes, connections, undoStack, redoStack>>

\* Double click where no box is: handleMouseDown turns the pixel into a cell
\* and onDoubleClickEmpty adds a 2 x 1 box with that cell as origin.
DoubleClickEmpty ==
    \E screenX \in ScreenXs, screenY \in ScreenYs :
        LET world == screenToWorld(screenX, screenY)
            gridX == world.worldX \div gridSize
            gridY == world.worldY \div gridSize
        IN /\ Len(boxes) < MaxBoxes
           /\ Len(undoStack) < MaxHistory
           /\ findBoxAt(boxes, gridX, gridY) = 0
           /\ execute(AddBoxCommand(Box(uuidv4, gridX, gridY, 2, 1, EmptyText, FALSE)))
           /\ UNCHANGED last

\* Drag of a box to a cell of the first row.
DragBoxPanned ==
    \E id \in BoxIdsOf(boxes), newX \in TargetXs, newY \in GridYs :
        LET oldState == Current
            newState == CanvasState(MoveBoxUpdater(boxes, id, newX, newY), connections)
        IN /\ OnDragGrid(newState.boxes)
           /\ Len(undoStack) < MaxHistory
           /\ execute(MoveCommand(oldState, newState))
           /\ UNCHANGED last

NextPan ==
    \/ PanCanvas
    \/ DoubleClickEmpty
    \/ DragBoxPanned
    \/ undoUnsent
    \/ redoUnsent

SpecPan == InitPan /\ [][NextPan]_vars

\* C39: every box has x >= 0 and y >= 0.
NonNegativeCoordinates ==
    \A i \in 1..Len(boxes) : boxes[i].x >= 0 /\ boxes[i].y >= 0

====
